---------------------------- MODULE Spec2Model ----------------------------
(***************************************************************************)
(* A model of mini-wallet: the checksummed address codec (core.rs), the    *)
(* balance rendering (core.rs), the file-backed wallet store (fs.rs) and   *)
(* the use cases Track, Untrack, List, Balance and Refresh (wallet/*.rs).  *)
(*                                                                         *)
(* Text is modelled as the code sees it: an address text is a sequence of  *)
(* bytes (str::as_bytes), a wallet name is a sequence of Unicode code      *)
(* points (str::chars).  A u128 is a sequence of decimal digits, most      *)
(* significant first, without leading zeros; its arithmetic is done digit  *)
(* by digit.                                                               *)
(***************************************************************************)
EXTENDS Integers, Sequences, FiniteSets, TLC

(***************************************************************************)
(* Bytes and characters                                                    *)
(***************************************************************************)

\* [c; n]: n copies of c (str::repeat, array initialisers)
Rep(c, n) == [i \in 1..n |-> c]

\* u8::is_ascii_uppercase, is_ascii_lowercase, is_ascii_alphabetic
IsAsciiUpper(c) == c >= 65 /\ c <= 90
IsAsciiLower(c) == c >= 97 /\ c <= 122
IsAsciiAlphabetic(c) == IsAsciiUpper(c) \/ IsAsciiLower(c)

\* u8::make_ascii_lowercase, u8::make_ascii_uppercase
AsciiLower(c) == IF IsAsciiUpper(c) THEN c + 32 ELSE c
AsciiUpper(c) == IF IsAsciiLower(c) THEN c - 32 ELSE c

\* hex::encode_to_slice writes lowercase digits: 0-9 then a-f
HexChar(n) == IF n < 10 THEN 48 + n ELSE 87 + n

HexEncode(bytes) ==
    [i \in 1..(2 * Len(bytes)) |->
        IF i % 2 = 1 THEN HexChar(bytes[(i + 1) \div 2] \div 16)
                     ELSE HexChar(bytes[i \div 2] % 16)]

\* hex's val(): the value of a hex digit of either case, -1 for any other byte
HexVal(c) ==
    IF c >= 48 /\ c <= 57 THEN c - 48
    ELSE IF c >= 97 /\ c <= 102 THEN c - 87
    ELSE IF c >= 65 /\ c <= 70 THEN c - 55
    ELSE -1

\* hex::decode_to_slice(data, out) with out of out_len bytes
HexDecodeToSlice(data, out_len) ==
    IF Len(data) % 2 # 0 THEN [ok |-> FALSE, err |-> "OddLength"]
    ELSE IF Len(data) \div 2 # out_len
        THEN [ok |-> FALSE, err |-> "InvalidStringLength"]
    ELSE IF \E i \in 1..Len(data) : HexVal(data[i]) < 0
        THEN [ok |-> FALSE, err |-> "InvalidHexCharacter"]
    ELSE [ok |-> TRUE,
          val |-> [i \in 1..out_len |->
                     16 * HexVal(data[2 * i - 1]) + HexVal(data[2 * i])]]

(***************************************************************************)
(* The addresses of the model, and Keccak-256 on their lowercase hex text  *)
(***************************************************************************)

ADDR_DECODE_SIZE == 20
ADDR_ENCODE_SIZE == ADDR_DECODE_SIZE * 2

\* 0xd8dA6BF26964aF9D7eEd9e03E53415D37aA96045
AddrVitalik ==
    <<216, 218, 107, 242, 105, 100, 175, 157, 126, 237,
      158, 3, 229, 52, 21, 211, 122, 169, 96, 69>>
\* 0xB644Babc370f46f202DB5eaf2071A9Ee66fA1D5E
AddrDavid ==
    <<182, 68, 186, 188, 55, 15, 70, 242, 2, 219,
      94, 175, 32, 113, 169, 238, 102, 250, 29, 94>>
\* 0xAb5801a7D398351b8bE11C439e05C5B3259aeC9B
AddrAb58 ==
    <<171, 88, 1, 167, 211, 152, 53, 27, 139, 225,
      28, 67, 158, 5, 197, 179, 37, 154, 236, 155>>
\* 0xC02aaA39b223FE8D0A0e5C4F27eAD9083C756Cc2
AddrWeth ==
    <<192, 42, 170, 57, 178, 35, 254, 141, 10, 14,
      92, 79, 39, 234, 217, 8, 60, 117, 108, 194>>
\* 0xF6369e1A96c7af1E2326826F5Dd84bFEf78d7D80
AddrF636 ==
    <<246, 54, 158, 26, 150, 199, 175, 30, 35, 38,
      130, 111, 93, 216, 75, 254, 247, 141, 125, 128>>
\* the checksummed addresses that are all upper case, and all lower case, and
\* mixed ones
\* 0x5aAeb6053F3E94C9b9A09f33669435E7Ef1BeAed
Addr5aae ==
    <<90, 174, 182, 5, 63, 62, 148, 201, 185, 160,
      159, 51, 102, 148, 53, 231, 239, 27, 234, 237>>
\* 0xfB6916095ca1df60bB79Ce92cE3Ea74c37c5d359
AddrFb69 ==
    <<251, 105, 22, 9, 92, 161, 223, 96, 187, 121,
      206, 146, 206, 62, 167, 76, 55, 197, 211, 89>>
\* 0xdbF03B407c01E7cD3CBea99509d93f8DDDC8C6FB
AddrDbf0 ==
    <<219, 240, 59, 64, 124, 1, 231, 205, 60, 190,
      169, 149, 9, 217, 63, 141, 221, 200, 198, 251>>
\* 0xD1220A0cf47c7B9Be7A2E6BA89F429762e7b9aDb
AddrD122 ==
    <<209, 34, 10, 12, 244, 124, 123, 155, 231, 162,
      230, 186, 137, 244, 41, 118, 46, 123, 154, 219>>
\* 0x52908400098527886E0F7030069857D2E4169EE7
Addr5290 ==
    <<82, 144, 132, 0, 9, 133, 39, 136, 110, 15,
      112, 48, 6, 152, 87, 210, 228, 22, 158, 231>>
\* 0x8617E340B3D01FA5F11F306F4090FD50E238070D
Addr8617 ==
    <<134, 23, 227, 64, 179, 208, 31, 165, 241, 31,
      48, 111, 64, 144, 253, 80, 226, 56, 7, 13>>
\* 0xde709f2102306220921060314715629080e2fb77
AddrDe70 ==
    <<222, 112, 159, 33, 2, 48, 98, 32, 146, 16,
      96, 49, 71, 21, 98, 144, 128, 226, 251, 119>>
\* 0x27b1fdb04752bbc536007a920d24acb045561c26
Addr27b1 ==
    <<39, 177, 253, 176, 71, 82, 187, 197, 54, 0,
      122, 146, 13, 36, 172, 176, 69, 86, 28, 38>>
\* 0x0000000000000000000000000000000000000000 (no letter at all)
AddrZero == Rep(0, ADDR_DECODE_SIZE)
\* 0xFFfFfFffFFfffFFfFFfFFFFFffFFFffffFfFFFfF (letters only)
AddrOnes == Rep(255, ADDR_DECODE_SIZE)

\* The first ADDR_DECODE_SIZE bytes of Keccak-256 (tiny_keccak's Keccak::v256,
\* the original padding) of the lowercase hex text of each address above.
KeccakRows ==
    { [addr |-> AddrVitalik,
       hash |-> <<83, 91, 218, 233, 187, 33, 75, 60, 197, 131,
                  181, 51, 132, 70, 73, 153, 242, 247, 244, 134>>],
      [addr |-> AddrDavid,
       hash |-> <<178, 67, 151, 82, 178, 87, 115, 63, 57, 249,
                  69, 22, 107, 193, 240, 213, 215, 42, 158, 30>>],
      [addr |-> AddrAb58,
       hash |-> <<230, 106, 147, 36, 163, 67, 96, 98, 17, 188,
                  252, 53, 241, 229, 248, 235, 250, 147, 79, 207>>],
      [addr |-> AddrWeth,
       hash |-> <<241, 48, 61, 124, 31, 215, 235, 238, 173, 176,
                  59, 220, 130, 107, 143, 17, 220, 85, 142, 32>>],
      [addr |-> AddrF636,
       hash |-> <<231, 202, 128, 46, 107, 77, 51, 141, 16, 189,
                  36, 221, 238, 5, 38, 223, 62, 86, 248, 141>>],
      [addr |-> AddrZero,
       hash |-> <<204, 197, 39, 254, 31, 147, 145, 191, 244, 68,
                  153, 77, 220, 164, 4, 190, 209, 220, 0, 138>>],
      [addr |-> AddrOnes,
       hash |-> <<152, 109, 77, 118, 203, 49, 62, 244, 139, 31,
                  153, 203, 102, 220, 195, 51, 121, 63, 233, 44>>],
      [addr |-> Addr5aae,
       hash |-> <<211, 133, 101, 12, 232, 253, 198, 219, 126, 227,
                  160, 145, 211, 72, 20, 219, 196, 206, 24, 33>>],
      [addr |-> AddrFb69,
       hash |-> <<92, 250, 198, 99, 244, 88, 55, 180, 9, 196,
                  211, 220, 28, 239, 95, 71, 89, 115, 79, 73>>],
      [addr |-> AddrDbf0,
       hash |-> <<117, 205, 57, 88, 226, 81, 222, 12, 73, 245,
                  77, 169, 155, 119, 247, 154, 219, 239, 146, 202>>],
      [addr |-> AddrD122,
       hash |-> <<200, 188, 93, 16, 36, 146, 56, 185, 42, 203,
                  131, 138, 134, 216, 131, 187, 146, 83, 196, 176>>],
      [addr |-> Addr5290,
       hash |-> <<41, 124, 27, 163, 136, 44, 62, 180, 91, 200,
                  151, 11, 219, 50, 63, 250, 152, 116, 153, 147>>],
      [addr |-> Addr8617,
       hash |-> <<129, 213, 211, 121, 254, 176, 43, 197, 250, 121,
                  195, 77, 215, 122, 170, 215, 171, 131, 76, 108>>],
      [addr |-> AddrDe70,
       hash |-> <<36, 252, 131, 188, 208, 11, 161, 54, 14, 75,
                  48, 88, 27, 158, 184, 193, 94, 12, 51, 68>>],
      [addr |-> Addr27b1,
       hash |-> <<46, 57, 112, 30, 255, 171, 115, 116, 92, 140,
                  50, 234, 55, 140, 81, 104, 26, 106, 194, 210>>] }

\* keccak.update(addr); keccak.finalize(&mut addr_hash): defined on the
\* lowercase hex texts of the model's addresses only
KeccakV256(data) ==
    (CHOOSE r \in KeccakRows : HexEncode(r.addr) = data).hash

(***************************************************************************)
(* Address codec (core.rs)                                                 *)
(***************************************************************************)

\* addr_hash.iter().flat_map(|byte| [byte >> 4, byte & 0xf])
HashNibbles(hash) ==
    [i \in 1..(2 * Len(hash)) |->
        IF i % 2 = 1 THEN hash[(i + 1) \div 2] \div 16
                     ELSE hash[i \div 2] % 16]

make_addr_checksum(addr) ==
    LET lower == [i \in 1..Len(addr) |-> AsciiLower(addr[i])]
        addr_hash_nibbles == HashNibbles(KeccakV256(lower))
    IN  [i \in 1..Len(lower) |->
            IF IsAsciiAlphabetic(lower[i])
            THEN IF addr_hash_nibbles[i] >= 8 THEN AsciiUpper(lower[i])
                                              ELSE AsciiLower(lower[i])
            ELSE lower[i]]

\* A mutant of checksum_eq: the texts are compared without regard to case.
checksum_eq_lower(addr) ==
    [i \in 1..Len(addr) |-> AsciiLower(addr[i])] =
    [i \in 1..Len(addr) |-> AsciiLower(make_addr_checksum(addr)[i])]

\* A mutant of checksum_eq: any casing passes.
checksum_eq_any(addr) == addr = addr

checksum_eq(addr) == addr = make_addr_checksum(addr)

\* A mutant of AddressToString: the digits are left in lower case.
AddressToStringLower(bytes) == <<48, 120>> \o HexEncode(bytes)

\* impl Display for Address: "0x" and the checksummed hex text
AddressToString(bytes) == <<48, 120>> \o make_addr_checksum(HexEncode(bytes))

\* A mutant of HasPrefix0x: the prefix "0X" passes too.
HasPrefix0xAnyCase(text) ==
    Len(text) >= 2 /\ text[1] = 48 /\ text[2] \in {88, 120}

\* slice::strip_prefix(b"0x")
HasPrefix0x(text) == Len(text) >= 2 /\ text[1] = 48 /\ text[2] = 120

ParseOk(bytes) == [ok |-> TRUE, val |-> bytes]
ParseErr(e) == [ok |-> FALSE, err |-> e]

\* A mutant of AddressFromStr: only a text that is too short has the wrong
\* length.
AddressFromStrAtLeast(text) ==
    IF ~HasPrefix0x(text) THEN ParseErr("MissingPrefix")
    ELSE LET addr_encoded == SubSeq(text, 3, Len(text))
         IN  IF Len(addr_encoded) < ADDR_ENCODE_SIZE THEN ParseErr("WrongLen")
             ELSE LET dec == HexDecodeToSlice(addr_encoded, ADDR_DECODE_SIZE)
                  IN  IF ~dec.ok THEN ParseErr("Decode")
                      ELSE IF ~checksum_eq(addr_encoded)
                          THEN ParseErr("BadChecksum")
                      ELSE ParseOk(dec.val)

\* A mutant of AddressFromStr: the hex digits are decoded before the length
\* is looked at.
AddressFromStrDecodeFirst(text) ==
    IF ~HasPrefix0x(text) THEN ParseErr("MissingPrefix")
    ELSE LET addr_encoded == SubSeq(text, 3, Len(text))
             dec == HexDecodeToSlice(addr_encoded, ADDR_DECODE_SIZE)
         IN  IF ~dec.ok THEN ParseErr("Decode")
             ELSE IF Len(addr_encoded) # ADDR_ENCODE_SIZE
                 THEN ParseErr("WrongLen")
             ELSE IF ~checksum_eq(addr_encoded) THEN ParseErr("BadChecksum")
             ELSE ParseOk(dec.val)

\* impl FromStr for Address
AddressFromStr(text) ==
    IF ~HasPrefix0x(text) THEN ParseErr("MissingPrefix")
    ELSE LET addr_encoded == SubSeq(text, 3, Len(text))
         IN  IF Len(addr_encoded) # ADDR_ENCODE_SIZE THEN ParseErr("WrongLen")
             ELSE LET dec == HexDecodeToSlice(addr_encoded, ADDR_DECODE_SIZE)
                  IN  IF ~dec.ok THEN ParseErr("Decode")
                      ELSE IF ~checksum_eq(addr_encoded)
                          THEN ParseErr("BadChecksum")
                      ELSE ParseOk(dec.val)

(***************************************************************************)
(* u128 arithmetic on decimal digit sequences                              *)
(***************************************************************************)

\* the digits without leading zeros (zero is <<0>>)
U128Norm(d) ==
    LET nz == {i \in 1..Len(d) : d[i] # 0}
    IN  IF nz = {} THEN (IF Len(d) > 1 THEN <<0>> ELSE d)
        ELSE SubSeq(d, CHOOSE i \in nz : \A j \in nz : i <= j, Len(d))

\* a < b, both without leading zeros
U128Less(a, b) ==
    \/ Len(a) < Len(b)
    \/ /\ Len(a) = Len(b)
       /\ \E i \in 1..Len(a) :
            /\ a[i] < b[i]
            /\ \A j \in 1..(i - 1) : a[j] = b[j]

RECURSIVE SubRange(_, _, _, _, _)
\* digits lo..hi of a - b and the borrow out of them, where a and b have the
\* same length; the lower half of the digits first, then the upper half
\* with the borrow that the lower half leaves (0 or 1)
SubRange(a, b, lo, hi, borrow) ==
    IF lo > hi \/ borrow \notin {0, 1} THEN [d |-> <<>>, c |-> borrow]
    ELSE IF lo = hi
    THEN LET x == a[lo] - b[lo] - borrow
         IN  [d |-> <<IF x < 0 THEN x + 10 ELSE x>>,
              c |-> IF x < 0 THEN 1 ELSE 0]
    ELSE LET mid == (lo + hi) \div 2
             low == SubRange(a, b, mid + 1, hi, borrow)
             high == SubRange(a, b, lo, mid, low.c)
         IN  [d |-> high.d \o low.d, c |-> high.c]

\* a - b for a >= b
U128Sub(a, b) ==
    U128Norm(SubRange(a, Rep(0, Len(a) - Len(b)) \o b, 1, Len(a), 0).d)

RECURSIVE DivDigit(_, _, _)
\* how often d fits into r, and what is left
DivDigit(r, d, q) ==
    IF U128Less(r, d) THEN [q |-> q, r |-> r]
    ELSE DivDigit(U128Sub(r, d), d, q + 1)

RECURSIVE DivRange(_, _, _, _, _)
\* long division of a by d > 0 over the digits lo..hi, r (some digits) being
\* what is left of the digits before them: the digits of the quotient, and
\* what is left
DivRange(a, d, lo, hi, r) ==
    IF lo > hi \/ r = <<>> THEN [quot |-> <<>>, rem |-> r]
    ELSE IF lo = hi
    THEN LET step == DivDigit(U128Norm(r \o <<a[lo]>>), d, 0)
         IN  [quot |-> <<step.q>>, rem |-> step.r]
    ELSE LET mid == (lo + hi) \div 2
             high == DivRange(a, d, lo, mid, r)
             low == DivRange(a, d, mid + 1, hi, high.rem)
         IN  [quot |-> high.quot \o low.quot, rem |-> low.rem]

\* wei / d and wei % d
U128Div(a, d) == U128Norm(DivRange(a, d, 1, Len(a), <<0>>).quot)
U128Rem(a, d) == DivRange(a, d, 1, Len(a), <<0>>).rem

\* impl Display for u128: the decimal digits as ASCII
U128ToString(n) == [i \in 1..Len(n) |-> 48 + n[i]]

(***************************************************************************)
(* Balance::eth (core.rs)                                                  *)
(***************************************************************************)

\* const ONE_ETH: u128 = 1_000_000_000_000_000_000
ONE_ETH == <<1, 0,0,0, 0,0,0, 0,0,0, 0,0,0, 0,0,0, 0,0,0>>

\* format!("{whole}.{fraction}")
BalanceEth(wei) ==
    LET whole == U128Div(wei, ONE_ETH)
        fraction == U128Rem(wei, ONE_ETH)
    IN  U128ToString(whole) \o <<46>> \o U128ToString(fraction)

(***************************************************************************)
(* Wallet names (wallet.rs, wallet_track.rs, wallet_list.rs)               *)
(***************************************************************************)

NAME_MAX == 30

\* char::is_whitespace (the Unicode White_Space property)
IsWhitespace(c) ==
    \/ c >= 9 /\ c <= 13
    \/ c \in {32, 133, 160, 5760, 8232, 8233, 8239, 8287, 12288}
    \/ c >= 8192 /\ c <= 8202

RECURSIVE TrimStart(_)
TrimStart(s) ==
    IF Len(s) > 0 /\ IsWhitespace(s[1]) THEN TrimStart(Tail(s)) ELSE s

RECURSIVE TrimEnd(_)
TrimEnd(s) ==
    IF Len(s) > 0 /\ IsWhitespace(s[Len(s)])
    THEN TrimEnd(SubSeq(s, 1, Len(s) - 1)) ELSE s

\* str::trim
Trim(s) == TrimEnd(TrimStart(s))

\* A mutant of validate_name: the length is checked first.
validate_name_len_first(name) ==
    IF Len(name) > NAME_MAX THEN "NameTooLong"
    ELSE IF Trim(name) = <<>> THEN "NameEmpty"
    ELSE "Ok"

\* A mutant of validate_name: the name is not trimmed before is_empty.
validate_name_no_trim(name) ==
    IF name = <<>> THEN "NameEmpty"
    ELSE IF Len(name) > NAME_MAX THEN "NameTooLong"
    ELSE "Ok"

\* A mutant of validate_name: no check at all.
validate_name_none(name) == "Ok"

\* validate_name: name.chars().count() is the length of the code point sequence
validate_name(name) ==
    IF Trim(name) = <<>> THEN "NameEmpty"
    ELSE IF Len(name) > NAME_MAX THEN "NameTooLong"
    ELSE "Ok"

\* char::to_lowercase on the letters the model's names use: ASCII and Latin-1
ToLowerChar(c) ==
    IF c >= 65 /\ c <= 90 THEN c + 32
    ELSE IF c >= 192 /\ c <= 222 /\ c # 215 THEN c + 32
    ELSE c

\* str::to_lowercase
ToLowercase(s) == [i \in 1..Len(s) |-> ToLowerChar(s[i])]

\* a <= b for strings (Ord for String: lexicographic by code point)
StrLeq(a, b) ==
    \/ /\ Len(a) <= Len(b)
       /\ \A i \in 1..Len(a) : a[i] = b[i]
    \/ \E i \in 1..Len(a) :
         /\ i <= Len(b)
         /\ a[i] < b[i]
         /\ \A j \in 1..(i - 1) : a[j] = b[j]

(***************************************************************************)
(* The inputs of the model                                                 *)
(***************************************************************************)

\* "A-wallet", "b-wallet", "c-wallet"
NameA == <<65, 45, 119, 97, 108, 108, 101, 116>>
NameB == <<98, 45, 119, 97, 108, 108, 101, 116>>
NameC == <<99, 45, 119, 97, 108, 108, 101, 116>>
\* "s".repeat(NAME_MAX) and "s".repeat(NAME_MAX + 1)
NameMax == Rep(115, NAME_MAX)
NameLong == Rep(115, NAME_MAX + 1)
\* "", "   ", and NAME_MAX + 1 spaces
NameEmpty == <<>>
NameBlank == <<32, 32, 32>>
NameBlankLong == Rep(32, NAME_MAX + 1)

\* the names a request may carry
ValidNames == {NameA, NameB}
InvalidNames == {NameBlank, NameLong}
RequestNames == ValidNames \cup InvalidNames

\* the address texts a Track request may carry: two canonical ones and
\* "not an address"; TextVitalikLower is the lowercase form of the first
TextVitalik == AddressToString(AddrVitalik)
TextVitalikLower == <<48, 120>> \o HexEncode(AddrVitalik)
TextNotAnAddress ==
    <<110, 111, 116, 32, 97, 110, 32, 97, 100, 100, 114, 101, 115, 115>>
RequestTexts == {TextVitalik, TextNotAnAddress}

\* 3_756_447_340_569_860_785 and 0, the balances the chain client may answer
WeiVitalik == <<3, 7,5,6, 4,4,7, 3,4,0, 5,6,9, 8,6,0, 7,8,5>>
WeiZero == <<0>>
ChainBalances == {WeiZero, WeiVitalik}

\* the concurrent requests
Procs == {1, 2}

\* the number of requests served in one behaviour
MaxCalls == 3
\* what Utc::now() reads, in half seconds: a time with a sub-second part
ClockReadings == {1}

(***************************************************************************)
(* The store (fs.rs)                                                       *)
(***************************************************************************)

VARIABLES
    wallets,    \* FsWalletStore.wallets: name -> FsWallet, behind the RwLock
    readers,    \* the number of shared guards of the RwLock held (by write())
    file,       \* the content of the file at FsWalletStore.path
    detached,   \* file writes still running for a call that was dropped
    req,        \* per request: its position, arguments, locals and result
    now,        \* the last reading of the clock (Utc::now()), in half seconds
    calls,      \* the number of requests still to come
    hist,       \* what has happened, for the properties
    calc,       \* a function of core.rs being evaluated: its input and output
    boot        \* whether the path exists, and a call of FsWalletStore::open

vars == <<wallets, readers, file, detached, req, now, calls, hist, calc, boot>>

EmptyMap == [n \in {} |-> 0]

\* HashMap::insert and HashMap::remove
MapInsert(m, k, v) == [n \in DOMAIN m \cup {k} |-> IF n = k THEN v ELSE m[n]]
MapRemove(m, k) == [n \in DOMAIN m \ {k} |-> m[n]]

\* Utc::now(): the clock as a DateTime
DateTimeOf(t) == [secs |-> t \div 2, nanos |-> (t % 2) * 500000000]

\* record_to_fs: DateTime::timestamp() keeps the whole seconds
record_to_fs(record) ==
    [address |-> record.address,
     balance |-> record.balance,
     last_update |-> record.last_update.secs]

\* fs_to_record: DateTime::from_timestamp(secs, 0)
fs_to_record(fs) ==
    [address |-> fs.address,
     balance |-> fs.balance,
     last_update |-> [secs |-> fs.last_update, nanos |-> 0]]

RECURSIVE SortedNames(_)
\* the names of a set, in ascending order
SortedNames(S) ==
    IF S = {} THEN <<>>
    ELSE LET least == CHOOSE n \in S : \A m \in S : StrLeq(n, m)
         IN  <<least>> \o SortedNames(S \ {least})

\* bincode::encode_to_vec of the map: its length, then one entry per wallet.
\* The order of the entries is the map's iteration order, which is fixed for
\* a map that does not change.
Encode(m) ==
    LET names == SortedNames(DOMAIN m)
    IN  <<Len(names)>> \o [i \in 1..Len(names) |-> <<names[i], m[names[i]]>>]

\* bincode::decode_from_slice: reads the length and that many entries, and
\* does not look at what follows them
\* (an entry that is no name and wallet stands for bytes that decode to none)
Decode(bytes) ==
    IF \/ bytes = <<>>
       \/ Len(bytes) < 1 + bytes[1]
       \/ \E i \in 2..(1 + bytes[1]) : Len(bytes[i]) # 2
    THEN [ok |-> FALSE]
    ELSE [ok |-> TRUE,
          val |-> [n \in {bytes[i][1] : i \in 2..(1 + bytes[1])} |->
                     LET i == CHOOSE j \in 2..(1 + bytes[1]) : bytes[j][1] = n
                     IN  bytes[i][2]]]

\* A mutant of Overlay: the bytes do not reach the file.
OverlayNone(content, bytes) == content

\* std::fs::write after File::create has truncated the file: the bytes go to
\* offset 0, over whatever another writer has put there since
Overlay(content, bytes) ==
    bytes \o SubSeq(content, Len(bytes) + 1, Len(content))

(***************************************************************************)
(* Requests and the store calls they make                                  *)
(***************************************************************************)

\* A store call (save or delete, and for Refresh the chain lookup before it):
\*   client  awaiting wallet_client.balance           (refresh_wallet)
\*   mutate  awaiting self.wallets.write()            (save, delete)
\*   write   awaiting self.wallets.read() in write()
\*   io      holding the shared guard, awaiting create_dir_all and fs::write
\*   io2     holding the shared guard, the file truncated and not yet written
\*   ok      returned Ok(())
NoRecord == [address |-> <<>>, balance |-> <<>>,
             last_update |-> [secs |-> 0, nanos |-> 0]]

NewCall(pc, kind, record) ==
    [pc |-> pc, kind |-> kind, rec |-> record, bytes |-> <<>>]

\* A request: idle, or at one of
\*   t_exists t_client   Track before wallet_store.exists / during the lookup
\*   u_exists            Untrack before wallet_store.exists
\*   l_all               List before wallet_store.all
\*   b_find b_client     Balance before wallet_store.find / during the lookup
\*   r_all               Refresh before wallet_store.all
\*   join                awaiting its store calls (kids)
\*   done                returned ret (and out)
IdleReq ==
    [pc |-> "idle", op |-> "none", name |-> <<>>, text |-> <<>>,
     address |-> <<>>, kids |-> EmptyMap, ret |-> "none", cause |-> "none",
     out |-> <<>>]

Returned(r, ret, cause, out) ==
    [r EXCEPT !.pc = "done", !.ret = ret, !.cause = cause, !.out = out,
              !.kids = EmptyMap]

\* A mutant of WalletErrorFrom: every error below becomes a WalletClient.
WalletErrorFromAny(error) == "WalletClient"

\* impl From<StoreError>, From<ClientError>, From<AddrParseError> for
\* WalletError: the kind of the error a lower layer's error becomes
WalletErrorFrom(error) ==
    IF error = "StoreError" THEN "WalletStore"
    ELSE IF error = "ClientError" THEN "WalletClient"
    ELSE "WalletAddrParse"

\* the operator ? on the error of a lower layer: execute returns the
\* WalletError made from it, which keeps it as its source
Failed(r, error) == Returned(r, WalletErrorFrom(error), error, <<>>)

InitHist ==
    [tracked_ok |-> {},                    \* Track returned Ok, no Untrack returned Ok since
     tracked_keep |-> {},                  \* Track returned Ok, no delete of the name since its save
     undeleted |-> [p \in Procs |-> FALSE],  \* no delete of the name since p's save
     after_ok |-> [p \in Procs |-> FALSE],   \* p's Track was called with its name in tracked_ok
     after_keep |-> [p \in Procs |-> FALSE], \* ... in tracked_keep
     found |-> [p \in Procs |-> FALSE],      \* what p's exists or find answered
     follows |-> [p \in Procs |-> FALSE],    \* p's exists was answered with a delete of its name as the last mutation
     last_mut |-> <<"none", <<>>>>,          \* the last mutation of the map
     snap |-> [p \in Procs |-> EmptyMap],    \* what p's wallet_store.all returned
     src |-> EmptyMap,                     \* name -> the text and chain balance of the Track whose save is the last mutation of the name
     expect |-> [p \in Procs |-> EmptyMap],  \* src of the names in tracked_ok when p's wallet_store.all returned
     chain |-> [p \in Procs |-> <<>>],       \* the balance the chain client gave p
     looked |-> [p \in Procs |-> EmptyMap], \* name -> the balance the chain client gave p's refresh_wallet of the name
     by |-> EmptyMap,                      \* name -> the task whose save is the last mutation of the name
     maps |-> {},                          \* the values the map has had (kept when a specification starts with one)
     saved |-> EmptyMap]                   \* name -> the record of the save that is the last mutation of the name

\* nothing of core.rs is being evaluated
NoCalc == [fn |-> "none", pc |-> "none", arg |-> <<>>, out |-> <<>>, back |-> <<>>]

\* no call of open under way; the file at the path exists
\*   o_exists  open before path.exists()
\*   o_io      write() of the new store awaiting create_dir_all and fs::write
\*   o_io2     the file created, and not yet written
\*   o_read    open before fs::read
\*   done      open returned ret (with the store whose map is store, if made)
NoBoot ==
    [exists |-> TRUE, pc |-> "none", missing |-> FALSE, ret |-> "none",
     cause |-> "none", made |-> FALSE, store |-> EmptyMap, was |-> <<>>,
     at |-> 0, again |-> FALSE]

\* The state once FsWalletStore::open has read a file holding the map store
\* and the executors are built on it, with budget requests to come
InitStore(store, budget) ==
    /\ boot = NoBoot
    /\ wallets = store
    /\ readers = 0
    /\ file = Encode(store)
    /\ detached = {}
    /\ req = [p \in Procs |-> IdleReq]
    /\ now = 0
    /\ calls = budget
    /\ hist = InitHist

InitWith(store, budget) == InitStore(store, budget) /\ calc = NoCalc

\* open finds no file: the map starts empty
Init == InitWith(EmptyMap, MaxCalls)

\* The task p takes the next request: it is free, and so is no task before
\* it (the tasks are alike, the first free one is taken).
Free(p) == req[p].pc \in {"idle", "done"}
CanStart(p) ==
    /\ Free(p)
    /\ \A q \in Procs : q < p => ~Free(q)
    /\ calls > 0

(***************************************************************************)
(* Track (wallet_track.rs)                                                 *)
(***************************************************************************)

\* execute is called: validate_name(name)?
CallTrack(p, name, text) ==
    /\ CanStart(p)
    /\ calls' = calls - 1
    /\ LET r == [IdleReq EXCEPT !.op = "Track", !.name = name, !.text = text]
           v == validate_name(name)
       IN  req' = [req EXCEPT ![p] =
                     IF v = "Ok" THEN [r EXCEPT !.pc = "t_exists"]
                     ELSE Returned(r, v, "none", <<>>)]
    /\ hist' = [hist EXCEPT !.after_ok[p] = name \in hist.tracked_ok,
                            !.after_keep[p] = name \in hist.tracked_keep,
                            !.undeleted[p] = FALSE, !.found[p] = FALSE,
                            !.follows[p] = FALSE,
                            !.snap[p] = EmptyMap, !.chain[p] = <<>>,
                            !.expect[p] = EmptyMap]
    /\ UNCHANGED <<calc, boot, wallets, readers, file, detached, now>>

\* A mutant of TrackCheck: the name conflict is not looked for.
TrackCheckNoConflict(r, exists) ==
    LET parsed == AddressFromStr(r.text)
    IN  IF ~parsed.ok
        THEN Returned(r, "WalletAddrParse", parsed.err, <<>>)
        ELSE [r EXCEPT !.pc = "t_client", !.address = parsed.val]

\* A mutant of TrackCheck: the address is parsed before the name is looked
\* for.
TrackCheckParseFirst(r, exists) ==
    LET parsed == AddressFromStr(r.text)
    IN  IF ~parsed.ok THEN Returned(r, "WalletAddrParse", parsed.err, <<>>)
        ELSE IF exists THEN Returned(r, "NameConflict", "none", <<>>)
        ELSE [r EXCEPT !.pc = "t_client", !.address = parsed.val]

\* if self.wallet_store.exists(name).await? { NameConflict };
\* let address = Address::from_str(address)?
TrackCheck(r, exists) ==
    IF exists THEN Returned(r, "NameConflict", "none", <<>>)
    ELSE LET parsed == AddressFromStr(r.text)
         IN  IF ~parsed.ok
             THEN Failed(r, parsed.err)
             ELSE [r EXCEPT !.pc = "t_client", !.address = parsed.val]

\* A mutant of TrackExists: the shared guard of exists is kept.
TrackExistsGuarded(p) ==
    /\ req[p].pc = "t_exists"
    /\ req' = [req EXCEPT ![p] = TrackCheck(@, req[p].name \in DOMAIN wallets)]
    /\ hist' = [hist EXCEPT !.found[p] = req[p].name \in DOMAIN wallets]
    /\ readers' = readers + 1
    /\ UNCHANGED <<calc, boot, wallets, file, detached, now, calls>>

TrackExists(p) ==
    /\ req[p].pc = "t_exists"
    /\ req' = [req EXCEPT ![p] = TrackCheck(@, req[p].name \in DOMAIN wallets)]
    /\ hist' = [hist EXCEPT !.found[p] = req[p].name \in DOMAIN wallets]
    /\ UNCHANGED <<calc, boot, wallets, readers, file, detached, now, calls>>

\* let balance = self.wallet_client.balance(&address).await?; the record is
\* built with Utc::now() and handed to wallet_store.save
\* the chain client answers b, and the clock reads t
TrackClientOk(p, b, t) ==
    /\ req[p].pc = "t_client"
    /\ t >= now
    /\ now' = t
    /\ LET record == [address |-> req[p].address, balance |-> b,
                      last_update |-> DateTimeOf(t)]
       IN  req' = [req EXCEPT ![p].pc = "join",
                      ![p].kids = (req[p].name :>
                                   NewCall("mutate", "save", record))]
    /\ hist' = [hist EXCEPT !.chain[p] = b]
    /\ UNCHANGED <<calc, boot, wallets, readers, file, detached, calls>>

\* A mutant of TrackClientErr: a record without a balance is in the map when
\* the lookup fails.
TrackClientErrDirty(p) ==
    /\ req[p].pc = "t_client"
    /\ req' = [req EXCEPT ![p] = Returned(@, "WalletClient", "none", <<>>)]
    /\ wallets' = MapInsert(wallets, req[p].name,
                            [address |-> req[p].address, balance |-> <<0>>,
                             last_update |-> 0])
    /\ UNCHANGED <<calc, boot, readers, file, detached, now, calls, hist>>

\* the chain client fails (the error becomes a WalletError by ?)
TrackClientErr(p) ==
    /\ req[p].pc = "t_client"
    /\ req' = [req EXCEPT ![p] = Failed(@, "ClientError")]
    /\ UNCHANGED <<calc, boot, wallets, readers, file, detached, now, calls, hist>>

(***************************************************************************)
(* Untrack (wallet_untrack.rs)                                             *)
(***************************************************************************)

CallUntrack(p, name) ==
    /\ CanStart(p)
    /\ calls' = calls - 1
    /\ req' = [req EXCEPT ![p] =
                 [IdleReq EXCEPT !.pc = "u_exists", !.op = "Untrack",
                                 !.name = name]]
    /\ hist' = [hist EXCEPT !.after_ok[p] = FALSE, !.after_keep[p] = FALSE,
                            !.undeleted[p] = FALSE, !.found[p] = FALSE,
                            !.follows[p] = FALSE,
                            !.snap[p] = EmptyMap, !.chain[p] = <<>>,
                            !.expect[p] = EmptyMap]
    /\ UNCHANGED <<calc, boot, wallets, readers, file, detached, now>>

\* A mutant of UntrackCheck: an absent name is deleted all the same.
UntrackCheckAlways(r, exists) ==
    [r EXCEPT !.pc = "join",
              !.kids = (r.name :> NewCall("mutate", "delete", NoRecord))]

\* if !self.wallet_store.exists(name).await? { NotFound };
\* self.wallet_store.delete(name)
UntrackCheck(r, exists) ==
    IF ~exists THEN Returned(r, "NotFound", "none", <<>>)
    ELSE [r EXCEPT !.pc = "join",
                   !.kids = (r.name :> NewCall("mutate", "delete", NoRecord))]

UntrackExists(p) ==
    /\ req[p].pc = "u_exists"
    /\ req' = [req EXCEPT ![p] = UntrackCheck(@, req[p].name \in DOMAIN wallets)]
    /\ hist' = [hist EXCEPT
                  !.found[p] = req[p].name \in DOMAIN wallets,
                  !.follows[p] = (hist.last_mut = <<"delete", req[p].name>>)]
    /\ UNCHANGED <<calc, boot, wallets, readers, file, detached, now, calls>>

(***************************************************************************)
(* List (wallet_list.rs)                                                   *)
(***************************************************************************)

\* FsWalletStore::all: a copy of the map, each FsWallet as a record
StoreAll(m) == [n \in DOMAIN m |-> fs_to_record(m[n])]

\* the orders in which a HashMap of these names may be iterated
IterationOrders(S) ==
    {f \in [1..Cardinality(S) -> S] :
        \A i, j \in 1..Cardinality(S) : i # j => f[i] # f[j]}

\* the closure of map(): one view per entry
WalletView(name, record) ==
    [name |-> name,
     address |-> AddressToString(record.address),
     balance |-> BalanceEth(record.balance),
     last_update |-> record.last_update]

\* A mutant of ViewLeq: the names are compared as they are.
ViewLeqCaseSensitive(a, b) == StrLeq(a.name, b.name)

\* the comparison of sort_by: a.name.to_lowercase().cmp(&b.name.to_lowercase())
ViewLeq(a, b) == StrLeq(ToLowercase(a.name), ToLowercase(b.name))

RECURSIVE InsertView(_, _)
\* v put behind every view that is not greater (the sort is stable)
InsertView(sorted, v) ==
    IF sorted = <<>> THEN <<v>>
    ELSE IF ViewLeq(sorted[1], v)
        THEN <<sorted[1]>> \o InsertView(Tail(sorted), v)
        ELSE <<v>> \o sorted

RECURSIVE SortViews(_)
\* slice::sort_by: a stable sort
SortViews(views) ==
    IF views = <<>> THEN <<>>
    ELSE InsertView(SortViews(SubSeq(views, 1, Len(views) - 1)),
                    views[Len(views)])

\* ListExecutor::execute on the snapshot, iterated in the given order
ListViews(snapshot, order) ==
    SortViews([i \in 1..Len(order) |-> WalletView(order[i], snapshot[order[i]])])

CallList(p) ==
    /\ CanStart(p)
    /\ calls' = calls - 1
    /\ req' = [req EXCEPT ![p] = [IdleReq EXCEPT !.pc = "l_all", !.op = "List"]]
    /\ hist' = [hist EXCEPT !.after_ok[p] = FALSE, !.after_keep[p] = FALSE,
                            !.undeleted[p] = FALSE, !.found[p] = FALSE,
                            !.follows[p] = FALSE,
                            !.snap[p] = EmptyMap, !.chain[p] = <<>>,
                            !.expect[p] = EmptyMap]
    /\ UNCHANGED <<calc, boot, wallets, readers, file, detached, now>>

ListAll(p) ==
    /\ req[p].pc = "l_all"
    /\ \E order \in IterationOrders(DOMAIN wallets) :
         req' = [req EXCEPT ![p] =
                   Returned(@, "Ok", "none", ListViews(StoreAll(wallets), order))]
    /\ hist' = [hist EXCEPT
                  !.snap[p] = StoreAll(wallets),
                  !.expect[p] = [n \in DOMAIN hist.src \cap hist.tracked_ok |->
                                   hist.src[n]]]
    /\ UNCHANGED <<calc, boot, wallets, readers, file, detached, now, calls>>

\* wallet_store.all() of ListAll step by step (pc l_iter: the shared guard
\* held, the entries being collected in out).
\* let fs_wallets = self.wallets.read().await
AllLock(p) ==
    /\ req[p].pc = "l_all"
    /\ readers' = readers + 1
    /\ req' = [req EXCEPT ![p].pc = "l_iter", ![p].out = EmptyMap]
    /\ UNCHANGED <<calc, boot, wallets, file, detached, now, calls, hist>>

\* fs_wallets.iter().map(..): the next entry goes to the collection
AllCopy(p) ==
    /\ req[p].pc = "l_iter"
    /\ \E n \in DOMAIN wallets \ DOMAIN req[p].out :
         req' = [req EXCEPT ![p].out = MapInsert(@, n, fs_to_record(wallets[n]))]
    /\ UNCHANGED <<calc, boot, wallets, readers, file, detached, now, calls,
                   hist>>

\* the iterator is at its end: all returns the collection, its guard
\* dropped, and execute the sorted views
AllReturn(p) ==
    /\ req[p].pc = "l_iter"
    /\ DOMAIN wallets \subseteq DOMAIN req[p].out
    /\ readers' = readers - 1
    /\ \E order \in IterationOrders(DOMAIN req[p].out) :
         req' = [req EXCEPT ![p] =
                   Returned(@, "Ok", "none", ListViews(req[p].out, order))]
    /\ hist' = [hist EXCEPT
                  !.snap[p] = req[p].out,
                  !.expect[p] = [n \in DOMAIN hist.src \cap hist.tracked_ok |->
                                   hist.src[n]]]
    /\ UNCHANGED <<calc, boot, wallets, file, detached, now, calls>>

(***************************************************************************)
(* Balance (wallet_balance.rs)                                             *)
(***************************************************************************)

CallBalance(p, name) ==
    /\ CanStart(p)
    /\ calls' = calls - 1
    /\ req' = [req EXCEPT ![p] =
                 [IdleReq EXCEPT !.pc = "b_find", !.op = "Balance",
                                 !.name = name]]
    /\ hist' = [hist EXCEPT !.after_ok[p] = FALSE, !.after_keep[p] = FALSE,
                            !.undeleted[p] = FALSE, !.found[p] = FALSE,
                            !.follows[p] = FALSE,
                            !.snap[p] = EmptyMap, !.chain[p] = <<>>,
                            !.expect[p] = EmptyMap]
    /\ UNCHANGED <<calc, boot, wallets, readers, file, detached, now>>

\* A mutant of BalanceCheck: the chain client is asked also when no wallet
\* is found.
BalanceCheckNoFind(r, store) ==
    [r EXCEPT !.pc = "b_client",
              !.text = IF r.name \in DOMAIN store
                       THEN AddressToString(fs_to_record(store[r.name]).address)
                       ELSE <<>>]

\* let Some(wallet) = self.wallet_store.find(name).await? else { NotFound };
\* let address = wallet.address().to_string()
BalanceCheck(r, store) ==
    IF r.name \in DOMAIN store
    THEN [r EXCEPT !.pc = "b_client",
                   !.text = AddressToString(
                       fs_to_record(store[r.name]).address)]
    ELSE Returned(r, "NotFound", "none", <<>>)

BalanceFind(p) ==
    /\ req[p].pc = "b_find"
    /\ req' = [req EXCEPT ![p] = BalanceCheck(@, wallets)]
    /\ hist' = [hist EXCEPT !.found[p] = req[p].name \in DOMAIN wallets]
    /\ UNCHANGED <<calc, boot, wallets, readers, file, detached, now, calls>>

\* let balance = self.wallet_client.balance(&address).await?; Ok(balance)
BalanceClientOk(p, b) ==
    /\ req[p].pc = "b_client"
    /\ req' = [req EXCEPT ![p] = Returned(@, "Ok", "none", b)]
    /\ hist' = [hist EXCEPT !.chain[p] = b]
    /\ UNCHANGED <<calc, boot, wallets, readers, file, detached, now, calls>>

BalanceClientErr(p) ==
    /\ req[p].pc = "b_client"
    /\ req' = [req EXCEPT ![p] = Failed(@, "ClientError")]
    /\ UNCHANGED <<calc, boot, wallets, readers, file, detached, now, calls, hist>>

(***************************************************************************)
(* Refresh (wallet_refresh.rs)                                             *)
(***************************************************************************)

CallRefresh(p) ==
    /\ CanStart(p)
    /\ calls' = calls - 1
    /\ req' = [req EXCEPT ![p] =
                 [IdleReq EXCEPT !.pc = "r_all", !.op = "Refresh"]]
    /\ hist' = [hist EXCEPT !.after_ok[p] = FALSE, !.after_keep[p] = FALSE,
                            !.undeleted[p] = FALSE, !.found[p] = FALSE,
                            !.follows[p] = FALSE,
                            !.snap[p] = EmptyMap, !.chain[p] = <<>>,
                            !.expect[p] = EmptyMap, !.looked[p] = EmptyMap]
    /\ UNCHANGED <<calc, boot, wallets, readers, file, detached, now>>

\* let wallets = self.wallet_store.all().await?; one refresh_wallet future per
\* entry, all handed to try_join_all (which is Ok at once for no future)
RefreshAll(p) ==
    /\ req[p].pc = "r_all"
    /\ LET snapshot == StoreAll(wallets)
       IN  /\ req' = [req EXCEPT ![p] =
                        IF DOMAIN snapshot = {}
                        THEN Returned(@, "Ok", "none", <<>>)
                        ELSE [@ EXCEPT !.pc = "join",
                                 !.kids = [n \in DOMAIN snapshot |->
                                    NewCall("client", "save", snapshot[n])]]]
           /\ hist' = [hist EXCEPT !.snap[p] = snapshot]
    /\ UNCHANGED <<calc, boot, wallets, readers, file, detached, now, calls>>

(***************************************************************************)
(* The store calls of a request: refresh_wallet, save, delete, write       *)
(***************************************************************************)

Kid(p, n) == req[p].kids[n]

\* the kids of p that hold the shared guard
Holding(p) == {m \in DOMAIN req[p].kids : req[p].kids[m].pc \in {"io", "io2"}}

\* The request p returns the error of its store call n.  For Refresh this
\* is try_join_all returning the first error: the other futures are dropped
\* where they are.  A dropped write() releases its guard, and the file write
\* it was awaiting runs on (tokio::fs::write runs on the blocking pool).
FailRequest(p, n, error) ==
    /\ req' = [req EXCEPT ![p] = Failed(@, error)]
    /\ readers' = readers - Cardinality(Holding(p))
    /\ detached' = detached \cup
          {[bytes |-> Kid(p, m).bytes, truncated |-> Kid(p, m).pc = "io2"] :
              m \in Holding(p) \ {n}}

\* what the request becomes when its store call n has returned Ok(()):
\* it returns Ok(()) once every call has
AfterKidOk(r, n) ==
    LET kids == [r.kids EXCEPT ![n].pc = "ok"]
    IN  IF \A m \in DOMAIN kids : kids[m].pc = "ok"
        THEN Returned(r, "Ok", "none", <<>>)
        ELSE [r EXCEPT !.kids = kids]

\* refresh_wallet: let balance = self.wallet_client.balance(..).await?;
\* the clone of the wallet gets the balance and goes to wallet_store.save
KidClientOk(p, n, b) ==
    /\ req[p].pc = "join"
    /\ n \in DOMAIN req[p].kids
    /\ Kid(p, n).pc = "client"
    /\ req' = [req EXCEPT ![p].kids[n].pc = "mutate",
                          ![p].kids[n].rec.balance = b]
    /\ hist' = [hist EXCEPT !.looked[p] = MapInsert(@, n, b)]
    /\ UNCHANGED <<calc, boot, wallets, readers, file, detached, now, calls>>

KidClientErr(p, n) ==
    /\ req[p].pc = "join"
    /\ n \in DOMAIN req[p].kids
    /\ Kid(p, n).pc = "client"
    /\ FailRequest(p, n, "ClientError")
    /\ UNCHANGED <<calc, boot, wallets, file, now, calls, hist>>

\* A mutant of StoreMutate: save leaves a name that is in the map as it is.
StoreMutateFirst(m, kind, name, record) ==
    IF kind = "save"
    THEN IF name \in DOMAIN m THEN m
         ELSE MapInsert(m, name, record_to_fs(record))
    ELSE MapRemove(m, name)

\* A mutant of StoreMutate: delete empties the map.
StoreMutateClear(m, kind, name, record) ==
    IF kind = "save" THEN MapInsert(m, name, record_to_fs(record))
    ELSE EmptyMap

\* A mutant of CanWrite: the exclusive guard is had whatever guards are held.
CanWriteAlways(r) == TRUE

\* self.wallets.write().await is granted when no shared guard is held
CanWrite(r) == r = 0

\* save: fs_wallets.insert(name.to_owned(), record_to_fs(record));
\* delete: fs_wallets.remove(name)
StoreMutate(m, kind, name, record) ==
    IF kind = "save" THEN MapInsert(m, name, record_to_fs(record))
    ELSE MapRemove(m, name)

\* the exclusive guard is taken, the map changed, the guard dropped
KidMutate(p, n) ==
    /\ req[p].pc = "join"
    /\ n \in DOMAIN req[p].kids
    /\ Kid(p, n).pc = "mutate"
    /\ CanWrite(readers)
    /\ wallets' = StoreMutate(wallets, Kid(p, n).kind, n, Kid(p, n).rec)
    /\ req' = [req EXCEPT ![p].kids[n].pc = "write"]
    /\ hist' =
         IF Kid(p, n).kind = "delete"
         THEN [hist EXCEPT
                 !.tracked_keep = @ \ {n},
                 !.undeleted = [q \in Procs |-> @[q] /\ req[q].name # n],
                 !.after_keep = [q \in Procs |-> @[q] /\ req[q].name # n],
                 !.src = MapRemove(@, n),
                 !.saved = MapRemove(@, n),
                 !.by = MapRemove(@, n),
                 !.maps = IF @ = {} THEN @ ELSE @ \cup {wallets'},
                 !.last_mut = <<"delete", n>>]
         ELSE [hist EXCEPT
                 !.undeleted[p] = (req[p].op = "Track"),
                 !.src = IF req[p].op = "Track"
                         THEN MapInsert(@, n, [text |-> req[p].text,
                                               wei |-> hist.chain[p]])
                         ELSE MapRemove(@, n),
                 !.saved = MapInsert(@, n, Kid(p, n).rec),
                 !.by = MapInsert(@, n, p),
                 !.maps = IF @ = {} THEN @ ELSE @ \cup {wallets'},
                 !.last_mut = <<"save", n>>]
    /\ UNCHANGED <<calc, boot, readers, file, detached, now, calls>>

\* write(): let wallet = self.wallets.read().await; the map is encoded
KidWriteLock(p, n) ==
    /\ req[p].pc = "join"
    /\ n \in DOMAIN req[p].kids
    /\ Kid(p, n).pc = "write"
    /\ readers' = readers + 1
    /\ req' = [req EXCEPT ![p].kids[n].pc = "io",
                          ![p].kids[n].bytes = Encode(wallets)]
    /\ UNCHANGED <<calc, boot, wallets, file, detached, now, calls, hist>>

\* fs::write has created (truncated) the file
KidTruncate(p, n) ==
    /\ req[p].pc = "join"
    /\ n \in DOMAIN req[p].kids
    /\ Kid(p, n).pc = "io"
    /\ file' = <<>>
    /\ req' = [req EXCEPT ![p].kids[n].pc = "io2"]
    /\ UNCHANGED <<calc, boot, wallets, readers, detached, now, calls, hist>>

\* what the history records when p returns Ok(())
HistReturnOk(p) ==
    LET name == req[p].name
    IN  IF req[p].op = "Track" /\ hist.undeleted[p]
        THEN [hist EXCEPT !.tracked_ok = @ \cup {name},
                          !.tracked_keep = @ \cup {name}]
        ELSE IF req[p].op = "Untrack"
        THEN [hist EXCEPT
                !.tracked_ok = @ \ {name},
                !.after_ok = [q \in Procs |-> @[q] /\ req[q].name # name]]
        ELSE hist

\* fs::write has written the bytes; write() returns Ok(()), its guard dropped
KidWriteOk(p, n) ==
    /\ req[p].pc = "join"
    /\ n \in DOMAIN req[p].kids
    /\ Kid(p, n).pc = "io2"
    /\ file' = Overlay(file, Kid(p, n).bytes)
    /\ readers' = readers - 1
    /\ req' = [req EXCEPT ![p] = AfterKidOk(@, n)]
    /\ hist' = IF req'[p].pc = "done" THEN HistReturnOk(p) ELSE hist
    /\ UNCHANGED <<calc, boot, wallets, detached, now, calls>>

\* create_dir_all or fs::write fails: write() returns the error, and save or
\* delete return it as a StoreError
KidIoFail(p, n) ==
    /\ req[p].pc = "join"
    /\ n \in DOMAIN req[p].kids
    /\ Kid(p, n).pc \in {"io", "io2"}
    /\ FailRequest(p, n, "StoreError")
    /\ UNCHANGED <<calc, boot, wallets, file, now, calls, hist>>

\* a file write that outlives its dropped call: it truncates, writes, or fails
DetachedTruncate(w) ==
    /\ w \in detached
    /\ ~w.truncated
    /\ file' = <<>>
    /\ detached' = (detached \ {w}) \cup {[w EXCEPT !.truncated = TRUE]}
    /\ UNCHANGED <<calc, boot, wallets, readers, req, now, calls, hist>>

DetachedWrite(w) ==
    /\ w \in detached
    /\ w.truncated
    /\ file' = Overlay(file, w.bytes)
    /\ detached' = detached \ {w}
    /\ UNCHANGED <<calc, boot, wallets, readers, req, now, calls, hist>>

DetachedFail(w) ==
    /\ w \in detached
    /\ detached' = detached \ {w}
    /\ UNCHANGED <<calc, boot, wallets, readers, file, req, now, calls, hist>>

(***************************************************************************)
(* FsWalletStore::open (fs.rs), called on the path by a new process        *)
(***************************************************************************)

\* open is called; the properties want the file as it was, the requests to
\* come, whether a request or a write was under way, and whether the open
\* before this one created the file
OpenCall ==
    /\ boot.pc \in {"none", "done"}
    /\ calls > 0
    /\ calls' = calls - 1
    /\ boot' = [NoBoot EXCEPT
                  !.exists = boot.exists,
                  !.pc = "o_exists",
                  !.was = file,
                  !.at = IF detached = {} /\ \A p \in Procs : Free(p)
                         THEN calls - 1 ELSE -1,
                  !.again = boot.pc = "done" /\ boot.missing /\ boot.ret = "Ok"]
    /\ UNCHANGED <<calc, wallets, readers, file, detached, req, now, hist>>

\* A mutant of OpenCheck: a store is made for a missing path without a write.
OpenCheckNoWrite(b, exists) ==
    IF ~exists
    THEN [b EXCEPT !.pc = "done", !.missing = TRUE, !.ret = "Ok",
                   !.made = TRUE, !.store = EmptyMap]
    ELSE [b EXCEPT !.pc = "o_read"]

\* if !path.exists() { a store with HashMap::new(); store.write().await? }
\* else { fs::read ... }
OpenCheck(b, exists) ==
    IF ~exists
    THEN [b EXCEPT !.pc = "o_io", !.missing = TRUE, !.store = EmptyMap]
    ELSE [b EXCEPT !.pc = "o_read"]

OpenExists ==
    /\ boot.pc = "o_exists"
    /\ boot' = OpenCheck(boot, boot.exists)
    /\ UNCHANGED <<calc, wallets, readers, file, detached, req, now, calls,
                   hist>>

\* write() of the new store: create_dir_all done, fs::write has created the
\* file
OpenCreate ==
    /\ boot.pc = "o_io"
    /\ file' = <<>>
    /\ boot' = [boot EXCEPT !.pc = "o_io2", !.exists = TRUE]
    /\ UNCHANGED <<calc, wallets, readers, detached, req, now, calls, hist>>

\* fs::write has written the encoding of the new store's map; open returns
\* the store
OpenWriteOk ==
    /\ boot.pc = "o_io2"
    /\ file' = Overlay(file, Encode(boot.store))
    /\ boot' = [boot EXCEPT !.pc = "done", !.ret = "Ok", !.made = TRUE]
    /\ UNCHANGED <<calc, wallets, readers, detached, req, now, calls, hist>>

\* create_dir_all or fs::write fails: store.write().await? returns the error
OpenIoFail ==
    /\ boot.pc \in {"o_io", "o_io2"}
    /\ boot' = [boot EXCEPT !.pc = "done", !.ret = "FsError", !.cause = "io"]
    /\ UNCHANGED <<calc, wallets, readers, file, detached, req, now, calls,
                   hist>>

\* A mutant of OpenDecoded: bytes that do not decode give an empty store.
OpenDecodedLenient(b, dec) ==
    [b EXCEPT !.pc = "done", !.ret = "Ok", !.made = TRUE,
              !.store = IF dec.ok THEN dec.val ELSE EmptyMap]

\* let (wallets, _) = bincode::decode_from_slice(&bytes, config)?;
\* Self { path, wallets }
OpenDecoded(b, dec) ==
    IF dec.ok
    THEN [b EXCEPT !.pc = "done", !.ret = "Ok", !.made = TRUE,
                   !.store = dec.val]
    ELSE [b EXCEPT !.pc = "done", !.ret = "FsError", !.cause = "decode"]

\* fs::read gives the content of the file, which is decoded
OpenRead ==
    /\ boot.pc = "o_read"
    /\ boot' = OpenDecoded(boot, Decode(file))
    /\ UNCHANGED <<calc, wallets, readers, file, detached, req, now, calls,
                   hist>>

\* fs::read fails
OpenReadFail ==
    /\ boot.pc = "o_read"
    /\ boot' = [boot EXCEPT !.pc = "done", !.ret = "FsError", !.cause = "read"]
    /\ UNCHANGED <<calc, wallets, readers, file, detached, req, now, calls,
                   hist>>

OpenStep ==
    \/ OpenExists
    \/ OpenCreate
    \/ OpenWriteOk
    \/ OpenIoFail
    \/ OpenRead
    \/ OpenReadFail

(***************************************************************************)
(* The specification                                                       *)
(***************************************************************************)

\* the steps of the requests under way and of the detached writes, with the
\* chain client answering from Balances and the clock reading from Times
Step(Balances, Times) ==
    \/ \E p \in Procs : TrackExists(p)
    \/ \E p \in Procs, b \in Balances, t \in Times : TrackClientOk(p, b, t)
    \/ \E p \in Procs : TrackClientErr(p)
    \/ \E p \in Procs : UntrackExists(p)
    \/ \E p \in Procs : ListAll(p)
    \/ \E p \in Procs : BalanceFind(p)
    \/ \E p \in Procs, b \in Balances : BalanceClientOk(p, b)
    \/ \E p \in Procs : BalanceClientErr(p)
    \/ \E p \in Procs : RefreshAll(p)
    \/ \E p \in Procs : \E n \in DOMAIN req[p].kids, b \in Balances :
         KidClientOk(p, n, b)
    \/ \E p \in Procs : \E n \in DOMAIN req[p].kids : KidClientErr(p, n)
    \/ \E p \in Procs : \E n \in DOMAIN req[p].kids : KidMutate(p, n)
    \/ \E p \in Procs : \E n \in DOMAIN req[p].kids : KidWriteLock(p, n)
    \/ \E p \in Procs : \E n \in DOMAIN req[p].kids : KidTruncate(p, n)
    \/ \E p \in Procs : \E n \in DOMAIN req[p].kids : KidWriteOk(p, n)
    \/ \E p \in Procs : \E n \in DOMAIN req[p].kids : KidIoFail(p, n)
    \/ \E w \in detached : DetachedTruncate(w)
    \/ \E w \in detached : DetachedWrite(w)
    \/ \E w \in detached : DetachedFail(w)

\* Any requests, one after another or interleaved, on a store that starts empty
Next ==
    \/ \E p \in Procs, name \in RequestNames, text \in RequestTexts :
         CallTrack(p, name, text)
    \/ \E p \in Procs, name \in ValidNames : CallUntrack(p, name)
    \/ \E p \in Procs : CallList(p)
    \/ \E p \in Procs, name \in ValidNames : CallBalance(p, name)
    \/ \E p \in Procs : CallRefresh(p)
    \/ Step(ChainBalances, ClockReadings)

Spec == Init /\ [][Next]_vars

(***************************************************************************)
(* The functions of core.rs, each evaluated on its own                     *)
(***************************************************************************)

\* the balances rendered: d * 10^k for every digit d and k up to MaxExp, the
\* values around one ether, those of the tests and u128::MAX
MaxExp == 20
WeiTest == <<2, 2,0,3, 4,4,6, 4,0,0, 5,3,7, 2,5,4, 4,7,7, 6,1,0, 5,5,4>>
U128Max == <<3,4,0, 2,8,2, 3,6,6, 9,2,0, 9,3,8, 4,6,3, 4,6,3, 3,7,4,
             6,0,7, 4,3,1, 7,6,8, 2,1,1, 4,5,5>>
WeiInputs ==
    {<<d>> \o Rep(0, k) : d \in 1..9, k \in 0..MaxExp}
    \cup {WeiZero, WeiVitalik, WeiTest, U128Max, Rep(9, 18),
          <<1>> \o Rep(0, 17) \o <<1>>}

\* the addresses rendered: those whose Keccak-256 hash is tabulated
AddrInputs == {r.addr : r \in KeccakRows}

\* the texts parsed, for each of these addresses: the checksummed text; the
\* same in lower and in upper case; with the case of its first letter
\* changed; without the prefix; with the prefix "0X"; one character short and
\* one long; with a character that is no hex digit
FlipCase(c) == IF IsAsciiUpper(c) THEN c + 32
               ELSE IF IsAsciiLower(c) THEN c - 32 ELSE c
FlipFirstLetter(text) ==
    IF \E i \in 3..Len(text) : IsAsciiAlphabetic(text[i])
    THEN LET i == CHOOSE j \in 3..Len(text) :
                    /\ IsAsciiAlphabetic(text[j])
                    /\ \A k \in 3..(j - 1) : ~IsAsciiAlphabetic(text[k])
         IN  [text EXCEPT ![i] = FlipCase(@)]
    ELSE text
TextsOf(a) ==
    LET lower == HexEncode(a)
        upper == [i \in 1..Len(lower) |-> AsciiUpper(lower[i])]
        canon == <<48, 120>> \o make_addr_checksum(lower)
    IN  {canon, <<48, 120>> \o lower, <<48, 120>> \o upper,
         FlipFirstLetter(canon), SubSeq(canon, 3, Len(canon)),
         <<48, 88>> \o SubSeq(canon, 3, Len(canon)),
         SubSeq(canon, 1, Len(canon) - 1), canon \o <<48>>,
         [canon EXCEPT ![5] = 103]}
\* the checksummed text with the case of one of its letters changed
OneFlips(canon) ==
    {[canon EXCEPT ![i] = FlipCase(@)] :
        i \in {j \in 3..Len(canon) : IsAsciiAlphabetic(canon[j])}}
\* texts without the prefix: one character; the prefix behind a blank, with
\* its characters swapped, without its "0", with "1" for "0" and with "y"
\* for "x"
TextsNoPrefix(a) ==
    LET canon == <<48, 120>> \o make_addr_checksum(HexEncode(a))
    IN  {<<48>>, <<32>> \o canon, <<120, 48>> \o SubSeq(canon, 3, Len(canon)),
         Tail(canon), [canon EXCEPT ![1] = 49], [canon EXCEPT ![2] = 121]}
\* texts with the prefix and then: one digit; the hex digits twice; "e" with
\* an acute accent (two bytes, 195 169) 20 times, which is 40 bytes, and 40
\* times; 39 digits and one such character
EAcute(n) == [i \in 1..(2 * n) |-> IF i % 2 = 1 THEN 195 ELSE 169]
TextsWrongLen(a) ==
    LET hex == make_addr_checksum(HexEncode(a))
    IN  {<<48, 120, 48>>, <<48, 120>> \o hex \o hex,
         <<48, 120>> \o EAcute(ADDR_DECODE_SIZE),
         <<48, 120>> \o EAcute(ADDR_ENCODE_SIZE),
         <<48, 120>> \o SubSeq(hex, 1, Len(hex) - 1) \o EAcute(1)}
\* texts with the prefix and a character that is no hex digit: 39 and 41
\* characters with a "g" among them
TextsNoHex(a) ==
    LET hex == make_addr_checksum(HexEncode(a))
    IN  {<<48, 120>> \o [SubSeq(hex, 1, Len(hex) - 1) EXCEPT ![3] = 103],
         <<48, 120>> \o hex \o <<103>>}
\* the text of the test addr_parse_decode_err
TextDecodeErr ==
    <<48, 120, 65, 66, 67, 68, 69, 70, 71, 72, 73, 74, 75, 76, 77, 78,
      79, 80, 81, 82, 83, 84, 97, 98, 99, 100, 101, 102, 103, 104,
      105, 106, 107, 108, 109, 110, 111, 112, 113, 114, 115, 116>>
TextInputs ==
    UNION {TextsOf(a) \cup OneFlips(AddressToString(a))
           \cup TextsNoPrefix(a) \cup TextsWrongLen(a) \cup TextsNoHex(a) :
              a \in AddrInputs}
    \cup {<<>>, <<48, 120>>, TextDecodeErr}

(***************************************************************************)
(* extract_wei (rpc.rs): the hex payload of the result as a u128           *)
(***************************************************************************)

RECURSIVE DecDigits(_)
\* the decimal digits of a small number
DecDigits(n) == IF n < 10 THEN <<n>> ELSE DecDigits(n \div 10) \o <<n % 10>>

RECURSIVE MulRange(_, _, _, _, _)
\* digits lo..hi of d * k + carry and the carry out of them; the lower half
\* of the digits first, then the upper half with the carry (0 or more) that
\* the lower half leaves
MulRange(d, k, lo, hi, carry) ==
    IF lo > hi \/ carry < 0 THEN [d |-> <<>>, c |-> carry]
    ELSE IF lo = hi
    THEN LET x == d[lo] * k + carry
         IN  [d |-> <<x % 10>>, c |-> x \div 10]
    ELSE LET mid == (lo + hi) \div 2
             low == MulRange(d, k, mid + 1, hi, carry)
             high == MulRange(d, k, lo, mid, low.c)
         IN  [d |-> high.d \o low.d, c |-> high.c]

\* d * k + c, in unbounded arithmetic
MulAdd(d, k, c) ==
    LET all == MulRange(d, k, 1, Len(d), c)
    IN  U128Norm(DecDigits(all.c) \o all.d)

\* 2^128
TwoTo128 == MulAdd(U128Max, 1, 1)

\* x modulo 2^128 for x < 2^136: what u128 arithmetic without overflow
\* checks keeps of acc * 256 + byte
WrapU128(x) ==
    LET q == CHOOSE k \in 0..255 :
                 /\ ~U128Less(x, MulAdd(TwoTo128, k, 0))
                 /\ U128Less(x, MulAdd(TwoTo128, k + 1, 0))
    IN  U128Sub(x, MulAdd(TwoTo128, q, 0))

\* One turn of .iter().fold(0, |acc, &byte| acc * 256 + byte as u128).  When
\* the result does not fit 128 bits the program panics if it was built with
\* overflow checks (checked), and else goes on with the wrapped value.
FoldStep(acc, byte, checked) ==
    LET x == MulAdd(acc, 256, byte)
    IN  IF ~U128Less(U128Max, x) THEN [ok |-> TRUE, acc |-> x]
        ELSE IF checked THEN [ok |-> FALSE, acc |-> acc]
        ELSE [ok |-> TRUE, acc |-> WrapU128(x)]

\* if balance.len().is_multiple_of(2) { balance } else { format!("0{balance}") }
PadEven(balance) ==
    IF Len(balance) % 2 = 0 THEN balance ELSE <<48>> \o balance

\* the payloads decoded: none; one digit; "ff"; three digits, lower and
\* upper case; one ether, 15 digits; u128::MAX, as it is and behind zeros;
\* 2^128 and 2^128 + 5; 2^250; the greatest uint256; a text that is no hex
HexOneEth ==
    <<100, 101, 48, 98, 54, 98, 51, 97, 55, 54, 52, 48, 48, 48, 48>>
HexInputs ==
    {<<>>, <<48>>, <<49>>, <<102>>, <<102, 102>>, <<49, 48, 48>>,
     <<97, 98, 99>>, <<65, 66, 67>>, HexOneEth,
     Rep(102, 32), Rep(48, 2) \o Rep(102, 32), Rep(48, 7) \o <<49>>,
     <<49>> \o Rep(48, 32), <<49>> \o Rep(48, 31) \o <<53>>,
     <<52>> \o Rep(48, 62), Rep(102, 64), <<120, 121, 122>>}

\* one of the functions is about to be applied to an input
InitPure ==
    /\ InitStore(EmptyMap, 0)
    /\ calc \in {[NoCalc EXCEPT !.fn = "eth", !.pc = "call", !.arg = w] :
                    w \in WeiInputs}
           \cup {[NoCalc EXCEPT !.fn = "to_string", !.pc = "call", !.arg = a] :
                    a \in AddrInputs}
           \cup {[NoCalc EXCEPT !.fn = "from_str", !.pc = "call", !.arg = t] :
                    t \in TextInputs}
           \cup {[NoCalc EXCEPT !.fn = "extract_wei", !.pc = "call",
                                !.arg = t] : t \in HexInputs}

\* Balance(wei).eth()
ApplyEth ==
    /\ calc.fn = "eth" /\ calc.pc = "call"
    /\ calc' = [calc EXCEPT !.pc = "done", !.out = BalanceEth(calc.arg)]
    /\ UNCHANGED <<wallets, readers, file, detached, req, now, calls, hist, boot>>

\* address.to_string()
ApplyToString ==
    /\ calc.fn = "to_string" /\ calc.pc = "call"
    /\ calc' = [calc EXCEPT !.pc = "back", !.out = AddressToString(calc.arg)]
    /\ UNCHANGED <<wallets, readers, file, detached, req, now, calls, hist, boot>>

\* Address::from_str of the text just rendered
BackFromStr ==
    /\ calc.fn = "to_string" /\ calc.pc = "back"
    /\ calc' = [calc EXCEPT !.pc = "done", !.back = AddressFromStr(calc.out)]
    /\ UNCHANGED <<wallets, readers, file, detached, req, now, calls, hist, boot>>

\* Address::from_str(text)
ApplyFromStr ==
    /\ calc.fn = "from_str" /\ calc.pc = "call"
    /\ LET out == AddressFromStr(calc.arg)
       IN  calc' = [calc EXCEPT !.pc = IF out.ok THEN "back" ELSE "done",
                                !.out = out]
    /\ UNCHANGED <<wallets, readers, file, detached, req, now, calls, hist, boot>>

\* to_string of the address just parsed
BackToString ==
    /\ calc.fn = "from_str" /\ calc.pc = "back"
    /\ calc' = [calc EXCEPT !.pc = "done",
                            !.back = AddressToString(calc.out.val)]
    /\ UNCHANGED <<wallets, readers, file, detached, req, now, calls, hist, boot>>

\* extract_wei: hex::decode(&balance) of the padded payload
ExtractWeiDecode ==
    /\ calc.fn = "extract_wei" /\ calc.pc = "call"
    /\ LET padded == PadEven(calc.arg)
           dec == HexDecodeToSlice(padded, Len(padded) \div 2)
       IN  calc' = IF dec.ok
                   THEN [calc EXCEPT !.pc = "fold",
                                     !.out = [bytes |-> dec.val, acc |-> <<0>>]]
                   ELSE [calc EXCEPT !.pc = "done",
                                     !.out = [ok |-> FALSE, err |-> "FromHex"]]
    /\ UNCHANGED <<wallets, readers, file, detached, req, now, calls, hist, boot>>

\* extract_wei: the fold takes the next byte, in a build with overflow checks
\* or in one without
ExtractWeiFold ==
    /\ calc.fn = "extract_wei" /\ calc.pc = "fold"
    /\ calc.out.bytes # <<>>
    /\ \E checked \in BOOLEAN :
         LET step == FoldStep(calc.out.acc, Head(calc.out.bytes), checked)
         IN  calc' = IF step.ok
                     THEN [calc EXCEPT !.out = [bytes |-> Tail(calc.out.bytes),
                                                acc |-> step.acc]]
                     ELSE [calc EXCEPT !.pc = "done",
                                       !.out = [ok |-> FALSE, err |-> "panic"]]
    /\ UNCHANGED <<wallets, readers, file, detached, req, now, calls, hist, boot>>

\* extract_wei: Ok(wei)
ExtractWeiReturn ==
    /\ calc.fn = "extract_wei" /\ calc.pc = "fold"
    /\ calc.out.bytes = <<>>
    /\ calc' = [calc EXCEPT !.pc = "done",
                            !.out = [ok |-> TRUE, wei |-> calc.out.acc]]
    /\ UNCHANGED <<wallets, readers, file, detached, req, now, calls, hist, boot>>

NextPure ==
    \/ ExtractWeiDecode
    \/ ExtractWeiFold
    \/ ExtractWeiReturn
    \/ ApplyEth
    \/ ApplyToString
    \/ BackFromStr
    \/ ApplyFromStr
    \/ BackToString

SpecPure == InitPure /\ [][NextPure]_vars

(***************************************************************************)
(* Track on its own, for every kind of name                                *)
(***************************************************************************)

MakeFsWallet(a, b) == [address |-> a, balance |-> b, last_update |-> 0]

\* the stores a file may hold: wallets under names that were valid
StoreOf(names) ==
    [n \in names |-> MakeFsWallet(IF n = NameA THEN AddrVitalik ELSE AddrDavid,
                                  IF n = NameB THEN WeiZero ELSE WeiVitalik)]

\* the names asked for: a plain one; one with blanks around it; one of
\* NAME_MAX code points and one of one more; one of NAME_MAX code points
\* between two blanks; the empty one; blank ones, short, of NAME_MAX and
\* longer
NamePadded == <<32>> \o NameA \o <<9>>
NameMaxPadded == <<32>> \o Rep(233, NAME_MAX - 2) \o <<32>>
NameLongPadded == <<32>> \o Rep(115, NAME_MAX - 1) \o <<32>>
NameBlankMax == Rep(32, NAME_MAX)
NameBlankMixed == <<32, 9, 10, 13, 12, 11, 160, 8195, 12288>>
TrackNames ==
    {NameA, NamePadded, NameMax, NameMaxPadded, NameLong, NameLongPadded,
     NameEmpty, NameBlank, NameBlankMixed, NameBlankMax, NameBlankLong}
TrackTexts == {TextVitalik, TextVitalikLower, TextNotAnAddress, <<>>}
TrackStores == {StoreOf({}), StoreOf({NameA}), StoreOf({NameA, NameMax})}
TrackCalls == 2

InitTrack == \E store \in TrackStores : InitWith(store, TrackCalls)

NextTrack ==
    \/ \E name \in TrackNames, text \in TrackTexts : CallTrack(1, name, text)
    \/ TrackExists(1)
    \/ \E b \in ChainBalances, t \in ClockReadings : TrackClientOk(1, b, t)
    \/ TrackClientErr(1)
    \/ \E n \in DOMAIN req[1].kids : KidMutate(1, n)
    \/ \E n \in DOMAIN req[1].kids : KidWriteLock(1, n)
    \/ \E n \in DOMAIN req[1].kids : KidTruncate(1, n)
    \/ \E n \in DOMAIN req[1].kids : KidWriteOk(1, n)
    \/ \E n \in DOMAIN req[1].kids : KidIoFail(1, n)

SpecTrack == InitTrack /\ [][NextTrack]_vars

(***************************************************************************)
(* List on its own, for stores of several names                            *)
(***************************************************************************)

\* names that differ in case only, and in their first letter
NameALower == <<97, 45, 119, 97, 108, 108, 101, 116>>
NameUpperB == <<66, 45, 119, 97, 108, 108, 101, 116>>
ListNames == {NameA, NameALower, NameB, NameUpperB, NameC}
ListStores ==
    {[n \in names |-> MakeFsWallet(a, b)] :
        names \in SUBSET ListNames, a \in {AddrVitalik}, b \in ChainBalances}
ListCalls == 1

InitList == \E store \in ListStores : InitWith(store, ListCalls)

NextList ==
    \/ CallList(1)
    \/ ListAll(1)

SpecList == InitList /\ [][NextList]_vars

(***************************************************************************)
(* open on its own: the path missing, or holding any of several contents   *)
(***************************************************************************)

MaxOpens == 2

\* what the file may hold: the encoding of a map; that encoding cut short,
\* followed by more bytes, or with an entry spoilt; nothing
FileContents ==
    LET stores == {StoreOf(S) : S \in SUBSET {NameA, NameB}}
    IN  {Encode(m) : m \in stores}
        \cup {SubSeq(Encode(m), 1, Len(Encode(m)) - 1) : m \in stores}
        \cup {Encode(m) \o <<0>> : m \in stores}
        \cup {[Encode(m) EXCEPT ![2] = <<NameA>>] :
                m \in stores \ {EmptyMap}}

\* no process has the store open, and open is still to be called
InitOpen ==
    /\ wallets = EmptyMap
    /\ readers = 0
    /\ detached = {}
    /\ req = [p \in Procs |-> IdleReq]
    /\ now = 0
    /\ calls = MaxOpens
    /\ hist = InitHist
    /\ calc = NoCalc
    /\ \/ file = <<>> /\ boot = [NoBoot EXCEPT !.exists = FALSE]
       \/ file \in FileContents /\ boot = NoBoot

NextOpen == OpenCall \/ OpenStep

SpecOpen == InitOpen /\ [][NextOpen]_vars

(***************************************************************************)
(* Track and then open: records are saved, every rewrite succeeds, and a   *)
(* new process opens the path                                              *)
(***************************************************************************)

StoreCalls == 3

\* the clock at a save: half a second, one second, one and a half
StoreTimes == {1, 2, 3}

InitSaves == InitWith(EmptyMap, StoreCalls)

NextSaves ==
    \/ \E p \in Procs, name \in ValidNames, text \in TrackTexts :
         CallTrack(p, name, text)
    \/ \E p \in Procs : TrackExists(p)
    \/ \E p \in Procs, b \in ChainBalances, t \in StoreTimes :
         TrackClientOk(p, b, t)
    \/ \E p \in Procs : \E n \in DOMAIN req[p].kids : KidMutate(p, n)
    \/ \E p \in Procs : \E n \in DOMAIN req[p].kids : KidWriteLock(p, n)
    \/ \E p \in Procs : \E n \in DOMAIN req[p].kids : KidTruncate(p, n)
    \/ \E p \in Procs : \E n \in DOMAIN req[p].kids : KidWriteOk(p, n)
    \/ OpenCall
    \/ OpenExists
    \/ OpenRead

SpecSaves == InitSaves /\ [][NextSaves]_vars

(***************************************************************************)
(* Refresh on its own, on a store of one or two wallets                    *)
(***************************************************************************)

RefreshCalls == 1

\* the clock when the requests begin, the wallets having been saved at 0
RefreshStarts == {2, 3}

RefreshBalances == {WeiZero, WeiVitalik, WeiTest}

InitRefresh ==
    /\ \E store \in {StoreOf({NameA}), StoreOf({NameA, NameB})} :
         /\ wallets = store
         /\ file = Encode(store)
    /\ readers = 0
    /\ detached = {}
    /\ req = [p \in Procs |-> IdleReq]
    /\ now \in RefreshStarts
    /\ calls = RefreshCalls
    /\ hist = InitHist
    /\ calc = NoCalc
    /\ boot = NoBoot

NextRefresh ==
    \/ \E p \in Procs : CallRefresh(p)
    \/ \E p \in Procs : RefreshAll(p)
    \/ \E p \in Procs : \E n \in DOMAIN req[p].kids, b \in RefreshBalances :
         KidClientOk(p, n, b)
    \/ \E p \in Procs : \E n \in DOMAIN req[p].kids : KidClientErr(p, n)
    \/ \E p \in Procs : \E n \in DOMAIN req[p].kids : KidMutate(p, n)
    \/ \E p \in Procs : \E n \in DOMAIN req[p].kids : KidWriteLock(p, n)
    \/ \E p \in Procs : \E n \in DOMAIN req[p].kids : KidTruncate(p, n)
    \/ \E p \in Procs : \E n \in DOMAIN req[p].kids : KidWriteOk(p, n)
    \/ \E p \in Procs : \E n \in DOMAIN req[p].kids : KidIoFail(p, n)
    \/ \E w \in detached : DetachedTruncate(w)
    \/ \E w \in detached : DetachedWrite(w)
    \/ \E w \in detached : DetachedFail(w)

SpecRefresh == InitRefresh /\ [][NextRefresh]_vars

(***************************************************************************)
(* Requests for one name racing each other, every rewrite succeeding       *)
(***************************************************************************)

RaceCalls == 3

\* the addresses asked for: two that differ
TextDavid == AddressToString(AddrDavid)
RaceTexts == {TextVitalik, TextDavid}

InitRace ==
    /\ \E store \in {StoreOf({}), StoreOf({NameB})} :
         /\ wallets = store
         /\ file = Encode(store)
         /\ hist = [InitHist EXCEPT !.maps = {store}]
    /\ readers = 0
    /\ detached = {}
    /\ req = [p \in Procs |-> IdleReq]
    /\ now = 0
    /\ calls = RaceCalls
    /\ calc = NoCalc
    /\ boot = NoBoot

NextRace ==
    \/ \E p \in Procs, text \in RaceTexts : CallTrack(p, NameA, text)
    \/ \E p \in Procs : CallUntrack(p, NameA)
    \/ \E p \in Procs : CallRefresh(p)
    \/ \E p \in Procs : TrackExists(p)
    \/ \E p \in Procs, t \in ClockReadings : TrackClientOk(p, WeiVitalik, t)
    \/ \E p \in Procs : UntrackExists(p)
    \/ \E p \in Procs : RefreshAll(p)
    \/ \E p \in Procs : \E n \in DOMAIN req[p].kids : KidClientOk(p, n, WeiTest)
    \/ \E p \in Procs : \E n \in DOMAIN req[p].kids : KidMutate(p, n)
    \/ \E p \in Procs : \E n \in DOMAIN req[p].kids : KidWriteLock(p, n)
    \/ \E p \in Procs : \E n \in DOMAIN req[p].kids : KidTruncate(p, n)
    \/ \E p \in Procs : \E n \in DOMAIN req[p].kids : KidWriteOk(p, n)

SpecRace == InitRace /\ [][NextRace]_vars

(***************************************************************************)
(* List, its wallet_store.all() step by step, beside Track and Untrack     *)
(***************************************************************************)

AllCalls == 3

InitAll ==
    \E store \in {StoreOf({NameA}), StoreOf({NameA, NameB})} :
        InitWith(store, AllCalls)

NextAll ==
    \/ \E p \in Procs : CallList(p)
    \/ \E p \in Procs : AllLock(p)
    \/ \E p \in Procs : AllCopy(p)
    \/ \E p \in Procs : AllReturn(p)
    \/ \E p \in Procs : CallTrack(p, NameB, TextVitalik)
    \/ \E p \in Procs : CallUntrack(p, NameA)
    \/ \E p \in Procs : TrackExists(p)
    \/ \E p \in Procs, t \in ClockReadings : TrackClientOk(p, WeiTest, t)
    \/ \E p \in Procs : UntrackExists(p)
    \/ \E p \in Procs : \E n \in DOMAIN req[p].kids : KidMutate(p, n)
    \/ \E p \in Procs : \E n \in DOMAIN req[p].kids : KidWriteLock(p, n)
    \/ \E p \in Procs : \E n \in DOMAIN req[p].kids : KidTruncate(p, n)
    \/ \E p \in Procs : \E n \in DOMAIN req[p].kids : KidWriteOk(p, n)

SpecAll == InitAll /\ [][NextAll]_vars

(***************************************************************************)
(* A Refresh that fails while a save of it rewrites the file, beside an    *)
(* Untrack                                                                 *)
(***************************************************************************)

DropCalls == 2

InitDrop ==
    /\ wallets = StoreOf({NameA, NameB})
    /\ file = Encode(wallets)
    /\ readers = 0
    /\ detached = {}
    /\ req = [p \in Procs |-> IdleReq]
    /\ now = 2
    /\ calls = DropCalls
    /\ hist = InitHist
    /\ calc = NoCalc
    /\ boot = NoBoot

NextDrop ==
    \/ \E p \in Procs : CallRefresh(p)
    \/ \E p \in Procs : CallUntrack(p, NameB)
    \/ \E p \in Procs : RefreshAll(p)
    \/ \E p \in Procs : UntrackExists(p)
    \/ \E p \in Procs : \E n \in DOMAIN req[p].kids : KidClientOk(p, n, WeiTest)
    \/ \E p \in Procs : \E n \in DOMAIN req[p].kids : KidClientErr(p, n)
    \/ \E p \in Procs : \E n \in DOMAIN req[p].kids : KidMutate(p, n)
    \/ \E p \in Procs : \E n \in DOMAIN req[p].kids : KidWriteLock(p, n)
    \/ \E p \in Procs : \E n \in DOMAIN req[p].kids : KidTruncate(p, n)
    \/ \E p \in Procs : \E n \in DOMAIN req[p].kids : KidWriteOk(p, n)
    \/ \E w \in detached : DetachedTruncate(w)
    \/ \E w \in detached : DetachedWrite(w)
    \/ \E w \in detached : DetachedFail(w)

SpecDrop == InitDrop /\ [][NextDrop]_vars

(***************************************************************************)
(* Every request beside every other, scheduled fairly                      *)
(***************************************************************************)

LiveCalls == 2

InitLive == InitWith(StoreOf({NameA}), LiveCalls)

\* A step of the request of task p: of its store calls, its chain lookups
\* and its file writes, each of which ends well or with its error; all but
\* the return of wallet_store.all().
Quick(p) ==
    \/ TrackExists(p)
    \/ \E t \in ClockReadings : TrackClientOk(p, WeiZero, t)
    \/ TrackClientErr(p)
    \/ UntrackExists(p)
    \/ AllLock(p)
    \/ AllCopy(p)
    \/ BalanceFind(p)
    \/ RefreshAll(p)
    \/ \E n \in DOMAIN req[p].kids : KidClientOk(p, n, WeiZero)
    \/ \E n \in DOMAIN req[p].kids : KidClientErr(p, n)
    \/ \E n \in DOMAIN req[p].kids : KidMutate(p, n)
    \/ \E n \in DOMAIN req[p].kids : KidWriteLock(p, n)
    \/ \E n \in DOMAIN req[p].kids : KidTruncate(p, n)
    \/ \E n \in DOMAIN req[p].kids : KidWriteOk(p, n)
    \/ \E n \in DOMAIN req[p].kids : KidIoFail(p, n)

Progress(p) == Quick(p) \/ AllReturn(p)

\* AllReturn(p) can be taken: its guard, written out
AllReturnEnabled(p) ==
    req[p].pc = "l_iter" /\ DOMAIN wallets \subseteq DOMAIN req[p].out

NextLive ==
    \/ \E p \in Procs : CallTrack(p, NameB, TextVitalik)
    \/ \E p \in Procs : CallUntrack(p, NameA)
    \/ \E p \in Procs : CallList(p)
    \/ \E p \in Procs : CallBalance(p, NameC)
    \/ \E p \in Procs : CallRefresh(p)
    \/ \E p \in Procs : Progress(p)

\* The runtime polls every task that can go on, the lock grants its guards
\* in the order they were asked for, and the file and the chain answer: a
\* request that can take a step does take one.  For AllReturn the weak
\* fairness is written out, with its guard for ENABLED.
SpecLive ==
    /\ InitLive
    /\ [][NextLive]_vars
    /\ \A p \in Procs :
          /\ WF_vars(Quick(p))
          /\ \/ []<>(~AllReturnEnabled(p))
             \/ []<><<AllReturn(p)>>_vars

(***************************************************************************)
(* Properties                                                              *)
(***************************************************************************)

\* the request of task p has returned, and was a call of op
Done(p, op) == req[p].pc = "done" /\ req[p].op = op

\* the step returns `ret` from the request of task p
Returns(p, op, ret) ==
    /\ req[p].op = op
    /\ req[p].pc \notin {"idle", "done"}
    /\ req'[p].pc = "done"
    /\ req'[p].ret = ret

Blank(name) == \A i \in 1..Len(name) : IsWhitespace(name[i])

\* s is the decimal text of w: digits without a needless leading zero, a
\* point, and exactly 18 digits, which read together as one number are w
IsDecimalRendering(w, s) ==
    /\ Cardinality({i \in 1..Len(s) : s[i] = 46}) = 1
    /\ LET dot == CHOOSE i \in 1..Len(s) : s[i] = 46
       IN  /\ dot >= 2
           /\ Len(s) - dot = 18
           /\ \A j \in 1..Len(s) : j # dot => s[j] \in 48..57
           /\ dot > 2 => s[1] # 48
           /\ U128Norm([j \in 1..(Len(s) - 1) |->
                          (IF j < dot THEN s[j] ELSE s[j + 1]) - 48]) = w

\* "0xd8dA6BF26964aF9D7eEd9e03E53415D37aA96045"
TextVitalikQuoted ==
    <<48, 120, 100, 56, 100, 65, 54, 66, 70, 50, 54, 57, 54, 52, 97, 70,
      57, 68, 55, 101, 69, 100, 57, 101, 48, 51, 69, 53, 51, 52, 49, 53,
      68, 51, 55, 97, 65, 57, 54, 48, 52, 53>>
\* "3.756447340569860785", "0.000000000000000000" and
\* "2203446.400537254477610554"
EthVitalikQuoted ==
    <<51, 46, 55, 53, 54, 52, 52, 55, 51, 52, 48, 53, 54, 57, 56, 54, 48,
      55, 56, 53>>
EthZeroQuoted ==
    <<48, 46, 48, 48, 48, 48, 48, 48, 48, 48, 48, 48, 48, 48, 48, 48, 48,
      48, 48, 48>>
EthTestQuoted ==
    <<50, 50, 48, 51, 52, 52, 54, 46, 52, 48, 48, 53, 51, 55, 50, 53, 52,
      52, 55, 55, 54, 49, 48, 53, 53, 52>>

\* C1 as stated: a Track that is called after a Track of the same name has
\* returned success, with no Untrack of the name having returned success
\* since and none under way, fails with NameConflict.
C1_Stated ==
    \A p \in Procs :
        (/\ Done(p, "Track")
         /\ hist.after_ok[p]
         /\ \A q \in Procs :
               ~(req[q].op = "Untrack" /\ req[q].name = req[p].name
                 /\ req[q].pc \notin {"idle", "done"}))
        => req[p].ret = "NameConflict"

C1_Conflict ==
    \A p \in Procs :
        (Done(p, "Track") /\ hist.after_keep[p]) => req[p].ret = "NameConflict"

C1_ConflictStep ==
    \A p \in Procs :
        Returns(p, "Track", "NameConflict") => wallets' = wallets /\ file' = file

\* C1: a Track that is called after a Track of the same name has returned
\* success fails with NameConflict, provided no Untrack has removed the name
\* from the map since the first Track saved it (an Untrack removes it even
\* when it goes on to return WalletStore); the step that returns NameConflict
\* leaves the map and the file as they are.
C1_Amended == [](C1_Conflict) /\ [][C1_ConflictStep]_vars

C1_Witness ==
    \E p \in Procs :
        /\ Done(p, "Track")
        /\ hist.after_keep[p]
        /\ req[p].ret = "NameConflict"
        /\ req[p].name \in DOMAIN wallets

\* C2 as stated: an Untrack that found its name in the Store succeeds.
C2_Stated ==
    \A p \in Procs :
        (Done(p, "Untrack") /\ hist.found[p]) => req[p].ret = "Ok"

C2_Returns ==
    \A p \in Procs :
        Done(p, "Untrack") =>
            /\ ~hist.found[p] => req[p].ret = "NotFound"
            /\ hist.found[p] => req[p].ret \in {"Ok", "WalletStore"}
            /\ hist.follows[p] => req[p].ret = "NotFound"

C2_Removed ==
    hist.last_mut[1] = "delete" => hist.last_mut[2] \notin DOMAIN wallets

C2_Steps ==
    \A p \in Procs :
        /\ Returns(p, "Untrack", "NotFound") =>
               wallets' = wallets /\ file' = file
        /\ \A n \in DOMAIN req[p].kids :
               (/\ req[p].op = "Untrack"
                /\ req[p].kids[n].pc = "mutate"
                /\ req'[p].pc = "join"
                /\ req'[p].kids[n].pc = "write")
               => /\ n = req[p].name
                  /\ wallets' = [m \in DOMAIN wallets \ {n} |-> wallets[m]]

\* C2: an Untrack that does not find its name fails with NotFound, and that
\* step leaves the map and the file as they are; an Untrack that finds it
\* removes it from the map and returns success, or WalletStore when the file
\* could not be rewritten (the name stays removed); an Untrack whose lookup
\* comes right after the removal of its name fails with NotFound.
C2_Amended == [](C2_Returns /\ C2_Removed) /\ [][C2_Steps]_vars

C2_Witness ==
    \E p \in Procs :
        /\ Done(p, "Untrack")
        /\ hist.follows[p]
        /\ req[p].ret = "NotFound"
        /\ req[p].name \in hist.tracked_ok

\* C3: a List whose snapshot is taken after a Track has returned success,
\* with the record of that Track still the one under the name, has a view of
\* the name with the address text that was tracked and the decimal text of
\* the balance the chain client gave; the address and balance of the example
\* are listed as quoted.
C3_Listed ==
    \A p \in Procs :
        Done(p, "List") =>
            \A n \in DOMAIN hist.expect[p] :
                \E i \in 1..Len(req[p].out) :
                    LET view == req[p].out[i]
                        src == hist.expect[p][n]
                    IN  /\ view.name = n
                        /\ view.address = src.text
                        /\ IsDecimalRendering(src.wei, view.balance)
                        /\ (src.text = TextVitalikQuoted /\ src.wei = WeiVitalik)
                           => view.balance = EthVitalikQuoted

\* C4 as stated: every name of more than NAME_MAX code points is refused
\* with NameTooLong, and no name of NAME_MAX code points is.
C4_Stated ==
    \A p \in Procs :
        Done(p, "Track") =>
            /\ Len(req[p].name) > NAME_MAX => req[p].ret = "NameTooLong"
            /\ Len(req[p].name) = NAME_MAX => req[p].ret # "NameTooLong"

\* C4: a name of more than NAME_MAX code points that is not blank is refused
\* with NameTooLong (blanks around it count), a blank one with NameEmpty; no
\* name of NAME_MAX code points is refused with NameTooLong.
C4_Amended ==
    \A p \in Procs :
        Done(p, "Track") =>
            /\ (Len(req[p].name) > NAME_MAX /\ ~Blank(req[p].name))
               => req[p].ret = "NameTooLong"
            /\ (Len(req[p].name) > NAME_MAX /\ Blank(req[p].name))
               => req[p].ret = "NameEmpty"
            /\ Len(req[p].name) = NAME_MAX => req[p].ret # "NameTooLong"

C4_Witness ==
    \E p \in Procs :
        /\ Done(p, "Track")
        /\ Len(req[p].name) = NAME_MAX + 1
        /\ req[p].name[1] = 32
        /\ req[p].ret = "NameTooLong"
        /\ wallets # EmptyMap

\* C5: a Track with an empty or blank name fails with NameEmpty, whatever
\* its address text and whatever the map holds.
C5_NameEmpty ==
    \A p \in Procs :
        (Done(p, "Track") /\ Blank(req[p].name)) => req[p].ret = "NameEmpty"

C5_Witness ==
    \E p \in Procs :
        /\ Done(p, "Track")
        /\ req[p].name = NameBlankMixed
        /\ req[p].text = TextVitalik
        /\ req[p].ret = "NameEmpty"
        /\ DOMAIN wallets = {NameA, NameMax}

\* C6: every name of the map has a character that is no white space and at
\* most NAME_MAX code points, and the file, unless a write has it truncated,
\* holds one entry for each name it has.
C6_Names ==
    /\ \A n \in DOMAIN wallets : ~Blank(n) /\ Len(n) <= NAME_MAX
    /\ file # <<>> =>
          /\ file[1] = Len(file) - 1
          /\ \A i, j \in 2..Len(file) : file[i][1] = file[j][1] => i = j
          /\ \A i \in 2..Len(file) :
                ~Blank(file[i][1]) /\ Len(file[i][1]) <= NAME_MAX

C6_Witness ==
    /\ DOMAIN wallets = ValidNames
    /\ file = Encode(wallets)
    /\ \E p \in Procs : Done(p, "Track") /\ req[p].ret = "NameEmpty"

\* C7: List returns one view for each record of the snapshot it took, the
\* names ascending when compared in lower case, and b-wallet, A-wallet and
\* c-wallet as A-wallet, b-wallet, c-wallet; the map and the file are as
\* they were.
C7_Sorted ==
    \A p \in Procs :
        Done(p, "List") =>
            LET out == req[p].out
                snapshot == hist.snap[p]
            IN  /\ req[p].ret = "Ok"
                /\ Len(out) = Cardinality(DOMAIN snapshot)
                /\ \A n \in DOMAIN snapshot :
                      \E i \in 1..Len(out) :
                          /\ out[i].name = n
                          /\ out[i].last_update = snapshot[n].last_update
                /\ \A i \in 1..(Len(out) - 1) :
                      StrLeq(ToLowercase(out[i].name), ToLowercase(out[i + 1].name))
                /\ DOMAIN snapshot = {NameB, NameA, NameC} =>
                      /\ out[1].name = NameA
                      /\ out[2].name = NameB
                      /\ out[3].name = NameC
                /\ StoreAll(wallets) = snapshot
                /\ file = Encode(wallets)

C7_Witness ==
    \E p \in Procs :
        /\ Done(p, "List")
        /\ DOMAIN hist.snap[p] = {NameB, NameA, NameC}
        /\ req[p].out[1].name = NameA
        /\ req[p].out[3].name = NameC

\* C8: the text Balance::eth gives for w is the whole ether, a point, and the
\* rest in exactly 18 digits; 0 gives "0.000000000000000000" and
\* 2203446400537254477610554 gives "2203446.400537254477610554".
C8_Padded ==
    (calc.fn = "eth" /\ calc.pc = "done") =>
        /\ IsDecimalRendering(calc.arg, calc.out)
        /\ calc.arg = WeiZero => calc.out = EthZeroQuoted
        /\ calc.arg = WeiTest => calc.out = EthTestQuoted

\* C9: the text of an address parses, and to that address.
C9_RoundTrip ==
    (calc.fn = "to_string" /\ calc.pc = "done") =>
        calc.back.ok /\ calc.back.val = calc.arg

C9_Witness ==
    /\ calc.fn = "to_string"
    /\ calc.pc = "done"
    /\ calc.out = TextVitalikQuoted
    /\ calc.back.ok
    /\ calc.back.val = AddrVitalik

\* "0x" and 40 hex digits
IsHexText(t) ==
    /\ Len(t) = 2 + ADDR_ENCODE_SIZE
    /\ t[1] = 48 /\ t[2] = 120
    /\ \A i \in 3..Len(t) :
          t[i] \in (48..57) \cup (65..70) \cup (97..102)

OneCase(t) ==
    \/ \A i \in 3..Len(t) : t[i] \notin 65..70
    \/ \A i \in 3..Len(t) : t[i] \notin 97..102

\* C10: a text that parses is, byte for byte, the text of the address it
\* parses to; "0x" and 40 hex digits, all letters lower or all upper, not
\* being the text of their address, are refused with BadChecksum.
C10_Canonical ==
    (calc.fn = "from_str" /\ calc.pc \in {"back", "done"}) =>
        /\ (calc.pc = "done" /\ calc.out.ok) => calc.back = calc.arg
        /\ (/\ IsHexText(calc.arg)
            /\ OneCase(calc.arg)
            /\ calc.arg # AddressToString(
                   HexDecodeToSlice(SubSeq(calc.arg, 3, Len(calc.arg)),
                                    ADDR_DECODE_SIZE).val))
           => ~calc.out.ok /\ calc.out.err = "BadChecksum"

C10_Witness ==
    /\ calc.fn = "from_str"
    /\ calc.pc = "done"
    /\ calc.out.ok
    /\ calc.back = calc.arg
    /\ \E i, j \in 3..Len(calc.arg) :
          calc.arg[i] \in 65..70 /\ calc.arg[j] \in 97..102

\* the checksummed texts the tests of core.rs and wallet_list.rs quote
TextDavidQuoted ==
    <<48, 120, 66, 54, 52, 52, 66, 97, 98, 99, 51, 55, 48, 102, 52, 54,
      102, 50, 48, 50, 68, 66, 53, 101, 97, 102, 50, 48, 55, 49, 65,
      57, 69, 101, 54, 54, 102, 65, 49, 68, 53, 69>>
TextAb58Quoted ==
    <<48, 120, 65, 98, 53, 56, 48, 49, 97, 55, 68, 51, 57, 56, 51, 53,
      49, 98, 56, 98, 69, 49, 49, 67, 52, 51, 57, 101, 48, 53, 67,
      53, 66, 51, 50, 53, 57, 97, 101, 67, 57, 66>>
TextWethQuoted ==
    <<48, 120, 67, 48, 50, 97, 97, 65, 51, 57, 98, 50, 50, 51, 70, 69,
      56, 68, 48, 65, 48, 101, 53, 67, 52, 70, 50, 55, 101, 65, 68,
      57, 48, 56, 51, 67, 55, 53, 54, 67, 99, 50>>
TextF636Quoted ==
    <<48, 120, 70, 54, 51, 54, 57, 101, 49, 65, 57, 54, 99, 55, 97, 102,
      49, 69, 50, 51, 50, 54, 56, 50, 54, 70, 53, 68, 100, 56, 52,
      98, 70, 69, 102, 55, 56, 100, 55, 68, 56, 48>>
QuotedTexts ==
    {TextVitalikQuoted, TextDavidQuoted, TextAb58Quoted, TextWethQuoted,
     TextF636Quoted}

IsLetter(c) == c \in (65..90) \cup (97..122)
OtherCase(c) == IF c \in 65..90 THEN c + 32 ELSE c - 32

\* C11: a checksummed text with the case of exactly one of its letters changed
\* is refused with BadChecksum.
C11_OneFlip ==
    (/\ calc.fn = "from_str"
     /\ calc.pc \in {"back", "done"}
     /\ \E c \in QuotedTexts \cup {AddressToString(a) : a \in AddrInputs} :
           \E i \in 3..Len(c) :
               /\ IsLetter(c[i])
               /\ calc.arg = [c EXCEPT ![i] = OtherCase(c[i])])
    => ~calc.out.ok /\ calc.out.err = "BadChecksum"

C11_Witness ==
    /\ calc.fn = "from_str"
    /\ calc.pc = "done"
    /\ calc.arg = [TextVitalikQuoted EXCEPT ![3] = 68]
    /\ ~calc.out.ok
    /\ calc.out.err = "BadChecksum"

\* C12: a text that does not begin with "0x" is refused with MissingPrefix,
\* whatever its length and the rest of it.
C12_MissingPrefix ==
    (/\ calc.fn = "from_str"
     /\ calc.pc \in {"back", "done"}
     /\ ~(Len(calc.arg) >= 2 /\ calc.arg[1] = 48 /\ calc.arg[2] = 120))
    => ~calc.out.ok /\ calc.out.err = "MissingPrefix"

C12_Witness ==
    /\ calc.fn = "from_str"
    /\ calc.pc = "done"
    /\ calc.arg = <<48, 88>> \o SubSeq(TextVitalikQuoted, 3, Len(TextVitalikQuoted))
    /\ ~calc.out.ok
    /\ calc.out.err = "MissingPrefix"

\* the characters of a UTF-8 text: its bytes that continue no character
CharCount(bytes) ==
    Cardinality({i \in 1..Len(bytes) : bytes[i] \div 64 # 2})

\* C13 as stated: a text that begins with "0x" and goes on with a number of
\* characters other than 40 is refused with WrongLen.
C13_Stated ==
    (/\ calc.fn = "from_str"
     /\ calc.pc \in {"back", "done"}
     /\ Len(calc.arg) >= 2 /\ calc.arg[1] = 48 /\ calc.arg[2] = 120
     /\ CharCount(calc.arg) - 2 # 40)
    => ~calc.out.ok /\ calc.out.err = "WrongLen"

\* C13: a text that begins with "0x" and goes on with a number of bytes other
\* than 40 is refused with WrongLen; 20 characters of two bytes each are 40
\* bytes, and are refused as no hex digits.
C13_Amended ==
    (/\ calc.fn = "from_str"
     /\ calc.pc \in {"back", "done"}
     /\ Len(calc.arg) >= 2 /\ calc.arg[1] = 48 /\ calc.arg[2] = 120)
    => /\ Len(calc.arg) - 2 # 40 => ~calc.out.ok /\ calc.out.err = "WrongLen"
       /\ (Len(calc.arg) - 2 = 40 /\ CharCount(calc.arg) - 2 # 40)
          => ~calc.out.ok /\ calc.out.err = "Decode"

C13_Witness ==
    /\ calc.fn = "from_str"
    /\ calc.pc = "done"
    /\ Len(calc.arg) = 2 + 41
    /\ CharCount(calc.arg) = 2 + 40
    /\ ~calc.out.ok
    /\ calc.out.err = "WrongLen"

\* C16: open on a path that does not exist returns, when it returns a store,
\* an empty one, with the encoding of the empty map written to the path
\* before it returns; it fails when that write fails; and the open after it
\* decodes an empty map.
C16_OpenMissing ==
    /\ (boot.pc = "done" /\ boot.missing)
       => /\ boot.ret = "Ok"
             => /\ boot.made
                /\ boot.store = EmptyMap
                /\ boot.exists
                /\ file = Encode(EmptyMap)
          /\ boot.cause = "io" <=> boot.ret = "FsError"
          /\ boot.ret = "FsError" => ~boot.made
    /\ (boot.pc = "done" /\ boot.again /\ boot.cause # "read")
       => boot.ret = "Ok" /\ boot.made /\ boot.store = EmptyMap

C16_Witness ==
    /\ boot.pc = "done"
    /\ boot.again
    /\ boot.ret = "Ok"
    /\ boot.store = EmptyMap
    /\ boot.was = Encode(EmptyMap)

\* the bytes are the encoding of a map, possibly followed by more bytes
Decodable(bytes) ==
    \E k \in 1..Len(bytes) :
        \E m \in {StoreOf(S) : S \in SUBSET {NameA, NameB}} :
            SubSeq(bytes, 1, k) = Encode(m)

\* C17: open on an existing path whose content cannot be read or decoded
\* fails, makes no store, and leaves the file as it was.
C17_OpenFails ==
    (/\ boot.pc = "done"
     /\ ~boot.missing
     /\ boot.cause = "read" \/ ~Decodable(boot.was))
    => /\ boot.ret = "FsError"
       /\ ~boot.made
       /\ boot.store = EmptyMap
       /\ file = boot.was

C17_Witness ==
    /\ boot.pc = "done"
    /\ ~boot.missing
    /\ boot.was = <<2, <<NameA, StoreOf({NameA})[NameA]>>>>
    /\ boot.ret = "FsError"
    /\ file = boot.was

\* wallet_store.all() of the store that open returned
Reopened == [n \in DOMAIN boot.store |-> fs_to_record(boot.store[n])]

\* C14: when records have been saved, every rewrite has succeeded and no
\* request is under way, the store that an open of the path returns holds the
\* saved names, each with the record that was saved: the same address,
\* balance and last_update.
C14_RoundTrip ==
    (/\ boot.pc = "done"
     /\ boot.ret = "Ok"
     /\ boot.at = calls
     /\ \A p \in Procs : Free(p))
    => Reopened = hist.saved

\* the part of C14 that holds: the names, the addresses, the balances and
\* the whole seconds of last_update
C14_WholeSeconds ==
    (/\ boot.pc = "done"
     /\ boot.ret = "Ok"
     /\ boot.at = calls
     /\ \A p \in Procs : Free(p))
    => /\ DOMAIN Reopened = DOMAIN hist.saved
       /\ \A n \in DOMAIN Reopened :
            /\ Reopened[n].address = hist.saved[n].address
            /\ Reopened[n].balance = hist.saved[n].balance
            /\ Reopened[n].last_update.secs = hist.saved[n].last_update.secs

\* the bytes are the encoding of a map, all of it and no more
CompleteEncoding(bytes) ==
    Decode(bytes).ok /\ bytes = Encode(Decode(bytes).val)

\* C15: at every point of a save, also when the rewrite fails in the middle,
\* the file holds a complete encoding: that of the map before the save or
\* that of the map after it.
C15_Atomic ==
    /\ CompleteEncoding(file)
    /\ \A p \in Procs :
         (req[p].pc = "done" /\ req[p].op = "Track" /\ req[p].ret = "WalletStore")
         => \/ file = Encode(wallets)
            \/ file = Encode(MapRemove(wallets, req[p].name))

\* C18: when Refresh has returned after the chain lookup of a wallet failed,
\* every wallet whose own lookup succeeded is in the store with the balance
\* the lookup gave.
C18_BestEffort ==
    \A p \in Procs :
        (Done(p, "Refresh") /\ req[p].ret = "WalletClient")
        => \A n \in DOMAIN hist.looked[p] :
               /\ n \in DOMAIN wallets
               /\ wallets[n].balance = hist.looked[p][n]

\* C19: when Refresh has returned Ok, every wallet of its snapshot is in the
\* store with its address unchanged, the balance the chain client gave, and
\* a last_update that is not before the refresh began.
C19_Stamped ==
    \A p \in Procs :
        (Done(p, "Refresh") /\ req[p].ret = "Ok")
        => \A n \in DOMAIN hist.snap[p] :
               /\ n \in DOMAIN wallets
               /\ wallets[n].address = hist.snap[p][n].address
               /\ wallets[n].balance = hist.looked[p][n]
               /\ wallets[n].last_update >= now \div 2

\* the part of C19 that holds: the address and the balance
C19_Balance ==
    \A p \in Procs :
        (Done(p, "Refresh") /\ req[p].ret = "Ok")
        => \A n \in DOMAIN hist.snap[p] :
               /\ n \in DOMAIN wallets
               /\ wallets[n].address = hist.snap[p][n].address
               /\ wallets[n].balance = hist.looked[p][n]

\* a Balance request of task p is under way before the step
InBalance(p) == req[p].op = "Balance" /\ req[p].pc \in {"b_find", "b_client"}

\* the step of a Balance request of task p: its call or one of its steps
BalanceStep(p) ==
    /\ req'[p] # req[p]
    /\ InBalance(p) \/ (req'[p].op = "Balance" /\ req'[p].pc = "b_find")

\* the lookup of Balance: NotFound for a name that is not in the store, and
\* else the chain client is to be asked with the text of the stored address
C20_Find ==
    \A p \in Procs :
        (req[p].op = "Balance" /\ req[p].pc = "b_find" /\ req'[p] # req[p])
        => IF req[p].name \in DOMAIN wallets
           THEN /\ req'[p].pc = "b_client"
                /\ req'[p].text =
                     AddressToString(wallets[req[p].name].address)
           ELSE /\ req'[p].pc = "done"
                /\ req'[p].ret = "NotFound"
                /\ hist'.chain[p] = <<>>

\* the answer of the chain client is what Balance returns
C20_Client ==
    \A p \in Procs :
        (req[p].op = "Balance" /\ req[p].pc = "b_client" /\ req'[p] # req[p])
        => /\ req'[p].pc = "done"
           /\ \/ req'[p].ret = "WalletClient"
              \/ req'[p].ret = "Ok" /\ req'[p].out = hist'.chain[p]

\* no step of Balance changes the store
C20_Frame ==
    \A p \in Procs :
        BalanceStep(p) => wallets' = wallets /\ file' = file

\* C20: Balance(name) fails with NotFound when the name is not in the store,
\* and the chain client is not asked; when the name is there, the chain
\* client is asked with the stored address and its answer is returned; no
\* step of Balance changes the map or the file.
C20_Balance ==
    /\ [][C20_Find /\ C20_Client /\ C20_Frame]_vars
    /\ [](\A p \in Procs :
            Done(p, "Balance")
            => /\ ~hist.found[p] <=> req[p].ret = "NotFound"
               /\ ~hist.found[p] => req[p].text = <<>> /\ hist.chain[p] = <<>>
               /\ hist.found[p] => req[p].text # <<>>)

C20_Witness ==
    \E p \in Procs :
        /\ Done(p, "Balance")
        /\ req[p].ret = "Ok"
        /\ req[p].name = NameA
        /\ req[p].text = TextVitalikQuoted
        /\ req[p].out = WeiVitalik
        /\ hist.found[p]

IsHexDigit(c) == c \in (48..57) \cup (65..70) \cup (97..102)

\* the one error of a rejected text whose remainder after "0x" counts as
\* len: the first of MissingPrefix, WrongLen, Decode, BadChecksum that applies
FirstError(t, len, out) ==
    IF ~(Len(t) >= 2 /\ t[1] = 48 /\ t[2] = 120)
    THEN ~out.ok /\ out.err = "MissingPrefix"
    ELSE IF len # 40 THEN ~out.ok /\ out.err = "WrongLen"
    ELSE IF \E i \in 3..Len(t) : ~IsHexDigit(t[i])
        THEN ~out.ok /\ out.err = "Decode"
    ELSE out.ok \/ out.err = "BadChecksum"

\* C29 as stated: the codec reports the first of MissingPrefix, WrongLen,
\* Decode, BadChecksum that applies, the length being that in characters.
C29_Stated ==
    (calc.fn = "from_str" /\ calc.pc \in {"back", "done"})
    => FirstError(calc.arg, CharCount(calc.arg) - 2, calc.out)

\* C29: the codec reports the first of MissingPrefix, WrongLen, Decode,
\* BadChecksum that applies, the length being that in bytes: "0x" and 40
\* bytes with one that is no hex digit give Decode, and "0x" and another
\* number of bytes give WrongLen whatever the bytes are.
C29_Amended ==
    (calc.fn = "from_str" /\ calc.pc \in {"back", "done"})
    => FirstError(calc.arg, Len(calc.arg) - 2, calc.out)

C29_Witness ==
    /\ calc.fn = "from_str"
    /\ calc.pc = "done"
    /\ calc.arg = TextDecodeErr
    /\ ~calc.out.ok
    /\ calc.out.err = "Decode"

\* the step is the call of Track by task p
TrackCalled(p) == CanStart(p) /\ calls' < calls /\ req'[p].op = "Track"

\* a Track that fails for its name does so when called, before any store or
\* chain call, and the call changes neither the map nor the file
C27_Name ==
    \A p \in Procs :
        /\ TrackCalled(p)
           => /\ wallets' = wallets /\ file' = file
              /\ req'[p].pc = "done"
                 => /\ req'[p].ret \in {"NameEmpty", "NameTooLong"}
                    /\ hist'.chain[p] = <<>>
        /\ (req[p].op = "Track" /\ req[p].pc \notin {"idle", "done"}
            /\ req'[p].pc = "done")
           => req'[p].ret \notin {"NameEmpty", "NameTooLong"}

\* a Track that fails with NameConflict or WalletAddrParse does so before
\* the chain lookup, one that fails with WalletClient before the save;
\* no step of Track before its save changes the map or the file
C27_Steps ==
    \A p \in Procs :
        (req[p].op = "Track" /\ req[p].pc \notin {"idle", "done"}
         /\ req'[p] # req[p])
        => /\ req[p].pc \in {"t_exists", "t_client"}
              => wallets' = wallets /\ file' = file
           /\ (req'[p].pc = "done"
               /\ req'[p].ret \in {"NameConflict", "WalletAddrParse"})
              => req[p].pc = "t_exists" /\ hist'.chain[p] = <<>>
           /\ (req'[p].pc = "done" /\ req'[p].ret = "WalletClient")
              => req[p].pc = "t_client"

\* C27: a Track that fails with NameEmpty or NameTooLong has made no store
\* or chain call; one that fails with NameConflict or WalletAddrParse no
\* chain call and no save; one that fails with WalletClient no save; none of
\* their steps changes the map or the file.
C27_Untouched == [][C27_Name /\ C27_Steps]_vars

C27_Witness ==
    \E p \in Procs :
        /\ Done(p, "Track")
        /\ req[p].ret = "WalletClient"
        /\ req[p].name = NamePadded
        /\ wallets = StoreOf({NameA})
        /\ file = Encode(wallets)

\* C28: Track reports the first check that fails, in the order: blank name,
\* long name, name in the store, address that does not parse, chain lookup,
\* save.
C28_Order ==
    \A p \in Procs :
        Done(p, "Track") =>
            IF Blank(req[p].name) THEN req[p].ret = "NameEmpty"
            ELSE IF Len(req[p].name) > NAME_MAX THEN req[p].ret = "NameTooLong"
            ELSE IF hist.found[p] THEN req[p].ret = "NameConflict"
            ELSE IF ~AddressFromStr(req[p].text).ok
                THEN req[p].ret = "WalletAddrParse"
            ELSE IF hist.chain[p] = <<>> THEN req[p].ret = "WalletClient"
            ELSE req[p].ret \in {"Ok", "WalletStore"}

C28_Witness ==
    \E p \in Procs :
        /\ Done(p, "Track")
        /\ req[p].name = NameA
        /\ NameA \in DOMAIN wallets
        /\ hist.found[p]
        /\ req[p].text = TextNotAnAddress
        /\ req[p].ret = "NameConflict"

\* C26: a request that ends on the error of a store call returns
\* WalletStore, on the error of the chain client WalletClient, on the error
\* of the address codec WalletAddrParse, and never Ok; a request that
\* returns one of these kinds has that error as its source.
C26_Kinds ==
    \A p \in Procs :
        req[p].pc = "done" =>
            /\ req[p].cause = "StoreError" <=> req[p].ret = "WalletStore"
            /\ req[p].cause = "ClientError" <=> req[p].ret = "WalletClient"
            /\ req[p].cause \in {"MissingPrefix", "WrongLen", "Decode",
                                 "BadChecksum"}
               <=> req[p].ret = "WalletAddrParse"
            /\ req[p].ret = "Ok" => req[p].cause = "none"
            /\ req[p].ret = "WalletAddrParse"
               => req[p].cause = AddressFromStr(req[p].text).err

C26_Witness ==
    \E p \in Procs, q \in Procs :
        /\ Done(p, "Untrack")
        /\ req[p].cause = "StoreError"
        /\ req[p].ret = "WalletStore"
        /\ Done(q, "Balance")
        /\ req[q].cause = "ClientError"
        /\ req[q].ret = "WalletClient"

\* C21: when two Tracks of one name have both found the name free and both
\* returned Ok, the map holds the name with the record of the Track whose
\* save changed the map last, and, the rewrites being done, so does the file.
C21_LastWins ==
    \A p, q \in Procs :
        (/\ p # q
         /\ Done(p, "Track") /\ req[p].ret = "Ok" /\ ~hist.found[p]
         /\ Done(q, "Track") /\ req[q].ret = "Ok" /\ ~hist.found[q]
         /\ req[p].name = req[q].name)
        => LET n == req[p].name
           IN  /\ n \in DOMAIN wallets
               /\ n \in DOMAIN hist.by
               /\ hist.by[n] \in {p, q}
               /\ wallets[n].address = req[hist.by[n]].address
               /\ wallets[n].balance = hist.chain[hist.by[n]]
               /\ wallets[n] = record_to_fs(hist.saved[n])
               /\ Decode(file).ok
               /\ Decode(file).val = wallets

C21_Witness ==
    /\ Done(1, "Track") /\ req[1].ret = "Ok" /\ ~hist.found[1]
    /\ Done(2, "Track") /\ req[2].ret = "Ok" /\ ~hist.found[2]
    /\ req[1].text = TextVitalikQuoted
    /\ req[2].text = TextDavidQuoted
    /\ hist.by[NameA] = 1
    /\ AddressToString(wallets[NameA].address) = TextVitalikQuoted
    /\ file = <<1, <<NameA, wallets[NameA]>>>>

\* a write of the file is under way: fs::write has been called for it
Writing ==
    \/ \E p \in Procs : Holding(p) # {}
    \/ detached # {}

C25_InPlace ==
    [][\A n \in DOMAIN wallets \cap DOMAIN wallets' :
           wallets'[n].address = wallets[n].address]_vars

\* the step is the mutation of the map by the save or delete of name n for
\* task p
Mutates(p, n) ==
    /\ n \in DOMAIN req[p].kids
    /\ req[p].kids[n].pc = "mutate"
    /\ req'[p].pc = "join"
    /\ req'[p].kids[n].pc = "write"

\* C30: save puts the record under the name, whether the name was in the
\* map or not; delete takes the name out of the map, and leaves the map as
\* it is when the name is not in it; both leave every other name with its
\* record, and go on to rewrite the file.
C30_SaveDelete ==
    [][\A p \in Procs : \A n \in DOMAIN req[p].kids :
         Mutates(p, n)
         => /\ req[p].kids[n].kind = "save"
               => /\ n \in DOMAIN wallets'
                  /\ fs_to_record(wallets'[n]).address =
                        req[p].kids[n].rec.address
                  /\ fs_to_record(wallets'[n]).balance =
                        req[p].kids[n].rec.balance
            /\ req[p].kids[n].kind = "delete"
               => /\ n \notin DOMAIN wallets'
                  /\ n \notin DOMAIN wallets => wallets' = wallets
            /\ \A m \in (DOMAIN wallets \cup DOMAIN wallets') \ {n} :
                  /\ m \in DOMAIN wallets
                  /\ m \in DOMAIN wallets'
                  /\ wallets'[m] = wallets[m]]_vars

\* two Untracks have both deleted the name, the second finding it gone, and
\* both go on to rewrite the file
C30_Witness ==
    /\ \A p \in Procs :
          /\ req[p].op = "Untrack"
          /\ req[p].pc = "join"
          /\ req[p].kids[NameA].pc \in {"write", "io"}
    /\ NameA \notin DOMAIN wallets
    /\ NameB \in DOMAIN wallets

\* while all() collects the entries the map does not change
C22_Still ==
    \A p \in Procs : req[p].pc = "l_iter" => wallets' = wallets

\* what all() returns is the whole map as it is when all() returns, and List
\* returns one view for each of its names
C22_Whole ==
    \A p \in Procs :
        (req[p].pc = "l_iter" /\ req'[p].pc = "done")
        => /\ hist'.snap[p] = StoreAll(wallets)
           /\ Len(req'[p].out) = Cardinality(DOMAIN wallets)
           /\ {req'[p].out[i].name : i \in 1..Len(req'[p].out)} = DOMAIN wallets

\* C22: the map that all() returns, and so the wallets that List returns, is
\* the whole map as it was at one instant between the call and the return:
\* the map does not change while all() reads it, a save or delete waiting
\* until all() has returned.
C22_Snapshot == [][C22_Still /\ C22_Whole]_vars

\* List has read one of two entries while an Untrack waits to delete
C22_Witness ==
    \E p, q \in Procs :
        /\ req[p].pc = "l_iter"
        /\ DOMAIN req[p].out = {NameB}
        /\ DOMAIN wallets = {NameA, NameB}
        /\ req[q].op = "Untrack"
        /\ req[q].pc = "join"
        /\ req[q].kids[NameA].pc = "mutate"

\* the shared guards that the request of task p holds
Guards(p) ==
    Cardinality(Holding(p)) + (IF req[p].pc = "l_iter" THEN 1 ELSE 0)

RECURSIVE SumGuards(_)
SumGuards(S) ==
    IF S = {} THEN 0
    ELSE LET p == CHOOSE q \in S : TRUE
         IN  Guards(p) + SumGuards(S \ {p})

\* C24: a Track whose chain lookup is under way has no store call under way
\* and holds no guard of the store's lock (every guard held is that of a
\* write() under way); its save begins when the lookup has answered.
C24_NoLock ==
    /\ readers = SumGuards(Procs)
    /\ \A p \in Procs :
          /\ req[p].pc = "t_client"
             => req[p].kids = EmptyMap /\ Guards(p) = 0
          /\ (req[p].op = "Track" /\ req[p].pc = "join")
             => hist.chain[p] # <<>>

\* a Track awaits the chain client while the save of another request has
\* changed the map and writes the file
C24_Witness ==
    \E p, q \in Procs :
        /\ req[p].pc = "t_client"
        /\ req[q].pc = "join"
        /\ req[q].op = "Track"
        /\ req[q].kids[req[q].name].pc = "io2"
        /\ readers = 1

RECURSIVE SmallHex(_)
\* the number that up to six hex digits spell
SmallHex(t) ==
    IF t = <<>> THEN 0
    ELSE SmallHex(SubSeq(t, 1, Len(t) - 1)) * 16 + HexVal(t[Len(t)])

RECURSIVE HexValue(_)
\* the payload's value, for a payload of hex digits: what its last six
\* digits spell, and 16^6 times what the digits before them spell
HexValue(t) ==
    IF Len(t) <= 6 THEN DecDigits(SmallHex(t))
    ELSE MulAdd(HexValue(SubSeq(t, 1, Len(t) - 6)), 16777216,
                SmallHex(SubSeq(t, Len(t) - 5, Len(t))))

\* the payload from its first digit that is not 0 on
Significant(t) ==
    LET nz == {i \in 1..Len(t) : t[i] # 48}
    IN  IF nz = {} THEN <<>>
        ELSE SubSeq(t, CHOOSE i \in nz : \A j \in nz : i <= j, Len(t))

\* the payload spells 2^128 or more: it has more than 32 digits that count
Overflows(t) == Len(Significant(t)) > 32

\* the last 32 hex digits of the payload spell its value modulo 2^128
HexValueLow(t) ==
    HexValue(IF Len(t) > 32 THEN SubSeq(t, Len(t) - 31, Len(t)) ELSE t)

IsHexPayload(t) == \A i \in 1..Len(t) : IsHexDigit(t[i])

ExtractWeiDone ==
    calc.fn = "extract_wei" /\ calc.pc = "done" /\ IsHexPayload(calc.arg)

\* the part of C36 on payloads below 2^128: the balance is the value that
\* the hex digits spell, the empty payload being 0
C36_Below ==
    (ExtractWeiDone /\ ~Overflows(calc.arg))
    => calc.out.ok /\ calc.out.wei = HexValue(Significant(calc.arg))

\* extract_wei has returned the value modulo 2^128 of a payload that spells
\* 2^128 or more
C36_Wrapped ==
    /\ ExtractWeiDone
    /\ Overflows(calc.arg)
    /\ calc.out.ok
    /\ calc.out.wei = HexValueLow(calc.arg)

\* C36: the balance decoded from a payload of hex digits is the value that
\* the digits spell when that is below 2^128, and when it is 2^128 or more,
\* no balance is returned that is the value modulo 2^128.
C36_Decoded ==
    ExtractWeiDone
    => IF Overflows(calc.arg)
       THEN ~(calc.out.ok /\ calc.out.wei = HexValueLow(calc.arg))
       ELSE calc.out.ok /\ calc.out.wei = HexValue(Significant(calc.arg))

\* an Untrack of name n has returned Ok(()), and no Track of n has returned
\* Ok(()) since the last Untrack of n that did
UntrackedOk(n) ==
    /\ \E p \in Procs :
          Done(p, "Untrack") /\ req[p].ret = "Ok" /\ req[p].name = n
    /\ n \notin hist.tracked_ok

\* C34: once an Untrack of a name has returned Ok(()) and until a Track of
\* the name returns Ok(()), the only step that puts the name into the map is
\* the save of a Track; the save of a Refresh is not.
C34_StaysAbsent ==
    [][\A n \in DOMAIN wallets' \ DOMAIN wallets :
         UntrackedOk(n)
         => \E q \in Procs : req[q].op = "Track" /\ Mutates(q, n)]_vars

\* the step returns WalletStore from the Track of task p, whose save of
\* name n has changed the map
SaveFails(p, n) ==
    /\ Returns(p, "Track", "WalletStore")
    /\ n \in DOMAIN req[p].kids
    /\ req[p].kids[n].kind = "save"

\* the part of C33 on the map: when the rewrite of a save fails, the map
\* keeps the record that the save put into it
C33_Kept ==
    [][\A p \in Procs : \A n \in DOMAIN req[p].kids :
         SaveFails(p, n)
         => /\ n \in DOMAIN wallets'
            /\ wallets' = wallets
            /\ fs_to_record(wallets'[n]).address = req[p].kids[n].rec.address
            /\ req'[p].cause = "StoreError"]_vars

\* C33: when the rewrite of a Track's save fails, Track returns WalletStore,
\* the map keeps the record of the save, and the file keeps its old content:
\* a complete encoding of a map without the name.
C33_NoRollback ==
    [][\A p \in Procs : \A n \in DOMAIN req[p].kids :
         SaveFails(p, n)
         => /\ n \in DOMAIN wallets'
            /\ wallets' = wallets
            /\ Decode(file').ok
            /\ n \notin DOMAIN Decode(file').val]_vars

\* the bytes of the file writes under way
WrittenBytes ==
    UNION {{req[p].kids[n].bytes : n \in Holding(p)} : p \in Procs}
    \cup {w.bytes : w \in detached}

\* the part of C32 on the rewrites that are not dropped: while a write()
\* holds its guard the map does not change, and the writes under way in
\* such calls write the same bytes
C32_Guarded ==
    [][(\E p \in Procs : Holding(p) # {})
       => /\ wallets' = wallets
          /\ \A p, q \in Procs : \A n \in Holding(p) : \A m \in Holding(q) :
                req[p].kids[n].bytes = req[q].kids[m].bytes]_vars

\* C32: while a write of the file is under way the map does not change, and
\* the writes of the file that are under way at the same time write the same
\* bytes.
C32_Frozen ==
    [][Writing => wallets' = wallets /\ Cardinality(WrittenBytes) = 1]_vars

\* the step is the start of the rewrite after the save or delete of name n
\* for task p: write() takes the shared guard and encodes the map
Rewrites(p, n) ==
    /\ n \in DOMAIN req[p].kids
    /\ req[p].kids[n].pc = "write"
    /\ req'[p].pc = "join"
    /\ req'[p].kids[n].pc = "io"

\* the map m holds what the save or delete of n for task p did to it, or a
\* later save or delete of n has undone it
OwnMutation(m, p, n) ==
    IF req[p].kids[n].kind = "save"
    THEN \/ n \in DOMAIN m /\ m[n] = record_to_fs(req[p].kids[n].rec)
         \/ ~(n \in DOMAIN hist.by /\ hist.by[n] = p)
    ELSE \/ n \notin DOMAIN m
         \/ n \in DOMAIN hist.by

\* C31: the map changes only in the step of a save or delete that holds the
\* exclusive guard, one at a time and while no find, all, exists or write
\* holds a shared guard; the guard is dropped with that step, before the
\* rewrite; and the rewrite encodes the map as it is when it begins, whole,
\* with the caller's own mutation unless a later save or delete of the name
\* has replaced it.
C31_Discipline ==
    [][/\ wallets' # wallets
          => \E p \in Procs : \E n \in DOMAIN req[p].kids : Mutates(p, n)
       /\ \A p \in Procs : \A n \in DOMAIN req[p].kids :
            /\ Mutates(p, n)
               => /\ readers = 0 /\ readers' = 0
                  /\ \A q \in Procs : \A m \in DOMAIN req[q].kids :
                        Mutates(q, m) => q = p /\ m = n
            /\ Rewrites(p, n)
               => /\ wallets' = wallets
                  /\ readers' = readers + 1
                  /\ Decode(req'[p].kids[n].bytes).ok
                  /\ Decode(req'[p].kids[n].bytes).val = wallets
                  /\ OwnMutation(wallets, p, n)]_vars

\* the rewrite of a Track's save has begun with a map that no longer holds
\* the name: an Untrack deleted it between the save and the rewrite
C31_Witness ==
    \E p \in Procs : \E n \in DOMAIN req[p].kids :
        /\ req[p].op = "Track"
        /\ req[p].kids[n].pc = "io"
        /\ Decode(req[p].kids[n].bytes).ok
        /\ n \notin DOMAIN Decode(req[p].kids[n].bytes).val

\* C35: every call of Track, Untrack, List, Balance and Refresh, and with it
\* every find, all, exists, save and delete that it makes, returns at last,
\* whatever the other task is doing.
C35_Returns ==
    \A p \in Procs : (~Free(p)) ~> (req[p].pc = "done")

\* a save or delete waits for the exclusive guard while the other task
\* holds a shared one
C35_Witness ==
    \E p, q \in Procs : \E n \in DOMAIN req[p].kids :
        /\ p # q
        /\ req[p].pc = "join"
        /\ req[p].kids[n].pc = "mutate"
        /\ Guards(q) > 0

=============================================================================
